---- MODULE Spec2Model ----
(***************************************************************************)
(* PrinterOne (src/server.py): the raw TCP print server.                   *)
(*                                                                         *)
(* The module models class PrinterOneServer: the listener thread           *)
(* (start_server), stop_server as run by the listener's own finally block  *)
(* and by a controlling thread (GUI / tray), one worker thread per         *)
(* accepted connection (handle_client), the remote peers, and the pure     *)
(* functions the handlers call (analyze_raw_data, extract_readable_text,   *)
(* convert_raw_to_pdf).  Further specifications model one call each of     *)
(* print_raw with apply_print_settings, convert_raw_to_pdf with its page   *)
(* layout, load_config / save_config, get_local_ip and                     *)
(* kill_process_on_port, and several start_server threads on one or two    *)
(* server objects.                                                         *)
(*                                                                         *)
(* Byte buffers are sequences of integers 0..255.                          *)
(***************************************************************************)
EXTENDS Integers, Sequences, FiniteSets, TLC

VARIABLES
    \* ---- PrinterOneServer object and module globals ----
    SERVER_RUNNING,   \* module global, src/server.py:157
    running,          \* self.running
    server_socket,    \* self.server_socket: None or the id of a socket object
    lsock,            \* state of the listening socket object: "unborn", "open", "listening", "closed"
    printer_name,     \* self.config["printer_name"]
    use_pdf_conversion, \* self.config["use_pdf_conversion"]
    portOwner,        \* who holds the TCP port: "free", "foreign", "self"
    \* ---- threads ----
    lpc,              \* position of the thread running start_server
    lexc,             \* whether the try block of start_server was left by an exception
    result,           \* return value of start_server: "none", "true", "false", "raised"
    cpc,              \* position of the controlling thread inside stop_server, "idle" outside
    \* ---- connections: one record of fields per connection id ----
    peer,             \* remote end: "idle", "open", "closed" (FIN sent), "reset"
    sentLen,          \* number of bytes the peer has sent so far
    rcvd,             \* number of bytes the worker has taken from the socket
    data,             \* handle_client's local `data`
    wpc,              \* worker position: "none", "recv", "print", "done"
    csock,            \* server side client socket: "none", "open", "closed"
    closes,           \* number of client_socket.close() calls made by this worker
    jobs,             \* buffers handed to print_raw by this connection's worker, in order
    printed,          \* results of the print_raw calls of this worker, in order
    readErr,          \* whether recv raised in this worker
    \* ---- history ----
    binds,            \* number of bind attempts made
    bindFailed,       \* whether a bind attempt raised
    acceptFailed,     \* whether an accept call raised while the socket was open
    stopSeen,         \* whether stop_server was ever entered by the controlling thread
    stopListening,    \* whether the controlling thread entered stop_server while the accept loop ran
    inFlightAtStop,   \* connections that had a worker reading when stop was first requested
    \* ---- analyze_raw_data applied to a buffer ----
    buf,              \* input buffer
    label,            \* result, or "none" before the call
    \* ---- print_raw(data, printer_name, print_settings) on one device ----
    print_settings,   \* the settings argument: None or a record of optional fields
    devDefault,       \* the device mode the printer reports as its current default
    dpc,              \* position inside print_raw / apply_print_settings
    hPrinter,         \* the device handle: "none", "open", "closed"
    hJob,             \* the document: "none", "started", "ended"
    pDevMode,         \* apply_print_settings' local pDevMode, None before it is read
    fieldsSet,        \* device-mode fields apply_print_settings has assigned
    committed,        \* device mode passed to SetPrinter, None when none was
    copies,           \* print_raw's local `copies`
    copy_num,         \* copies completed by the loop
    calls,            \* device calls made, in order
    applyFail,        \* step of apply_print_settings that raised, "none" when none did
    printFail,        \* step of print_raw that raised, "none" when none did
    dresult,          \* return value of print_raw: "none" before it returns, "true", "false"
    \* ---- convert_raw_to_pdf(raw_data, save_file) applied to buf ----
    save_file,        \* the save_file argument
    rpc,              \* position inside convert_raw_to_pdf
    temp_pdf,         \* the temporary file: "none", "exists", "deleted", "renamed"
    canvas_body,      \* what was drawn on the content pages
    pdf_data,         \* the local pdf_data, None before the file is read back
    rresult,          \* what convert_raw_to_pdf returned
    renderFail,       \* step of convert_raw_to_pdf that raised, "none" when none did
    \* ---- load_config / save_config ----
    fs,               \* the candidate config files
    tempdir,          \* tempfile.gettempdir(): "usable" when it finds a directory, "none" when it raises
    config,           \* self.config
    config_path,      \* self.config_path
    lastOp,           \* the last of load_config / save_config that ran, and its result
    prevOp,           \* the one before it
    \* ---- get_local_ip() ----
    probe,            \* what the outbound-socket probe of method 1 does
    interfaces,       \* what psutil.net_if_addrs() / net_if_stats() report
    hostaddr,         \* what gethostbyname(gethostname()) does
    ipc,              \* position inside get_local_ip
    via,              \* the method whose return statement ran, "none" before
    local_ip,         \* the address returned, the empty address before
    \* ---- kill_process_on_port(port) ----
    listeners,        \* psutil.net_connections(): the sockets of the system, with their owners
    alive,            \* the processes that are running
    kidx,             \* position of the for loop in the connection list
    signals,          \* terminate() / kill() calls that took effect, in order
    reclaims,         \* number of kill_process_on_port calls made
    \* ---- several start_server threads, on one or two PrinterOneServer objects ----
    obj,              \* the server object each thread calls start_server on
    instRunning,      \* self.running of each object
    instSocket,       \* self.server_socket of each object: 0 for None, or a socket
    sockState,        \* state of each socket: "unborn", "open", "listening", "closed"
    mpc,              \* position of each thread inside start_server
    mexc,             \* whether the thread's bind raised
    acceptErr,        \* whether an accept call of the thread raised on a listening socket
    servedOn,         \* the sockets each thread has accepted a connection on
    closedBy,         \* who closed each socket: "none", "ctl", or the thread
    stopped,          \* the objects the controlling thread has called stop_server on
    \* ---- the page layout of convert_raw_to_pdf / add_hex_dump_to_pdf ----
    nbytes,           \* len(raw_data) in the hex dump branch
    ppc,              \* position inside the layout code
    y_position,       \* the local y_position
    pleft,            \* rounds the current for loop has still to make
    chunks,           \* chunks of the current long line still to draw
    lastDraw          \* the last drawString call: what was drawn, and where

netvars == <<SERVER_RUNNING, running, server_socket, lsock, printer_name,
             use_pdf_conversion, portOwner, lpc, lexc, result, cpc,
             peer, sentLen, rcvd, data, wpc, csock, closes, jobs, printed, readErr,
             binds, bindFailed, acceptFailed, stopSeen, stopListening, inFlightAtStop>>

fnvars == <<buf, label>>

devvars == <<print_settings, devDefault, dpc, hPrinter, hJob, pDevMode, fieldsSet,
             committed, copies, copy_num, calls, applyFail, printFail, dresult>>

pdfvars == <<save_file, rpc, temp_pdf, canvas_body, pdf_data, rresult, renderFail>>

cfgvars == <<fs, tempdir, config, config_path, lastOp, prevOp>>

ipvars == <<probe, interfaces, hostaddr, ipc, via, local_ip>>

killvars == <<listeners, alive, kidx, signals, reclaims>>

multivars == <<obj, instRunning, instSocket, sockState, mpc, mexc, acceptErr, servedOn,
               closedBy, stopped>>

pagevars == <<nbytes, ppc, y_position, pleft, chunks, lastDraw>>

auxvars == <<ipvars, killvars, multivars, pagevars>>

\* everything but the listener and its connections
offnet == <<fnvars, devvars, pdfvars, cfgvars, auxvars>>

vars == <<netvars, fnvars, devvars, pdfvars, cfgvars, auxvars>>

None == "None"

(***************************************************************************)
(* Bounds of the model.                                                    *)
(***************************************************************************)
MaxConn == 2        \* connections a run opens
MaxLen == 2         \* bytes one peer sends
MaxTail == 1        \* length of the free tail of a classified buffer

(***************************************************************************)
(* Program constants.                                                      *)
(***************************************************************************)
RecvSize == 4096    \* client_socket.recv(4096)
Backlog == 5        \* server_socket.listen(5)
SniffWindow == 100  \* data[:100]
TextWindow == 200   \* decoded[:200]

Conns == 1..MaxConn

Min(a, b) == IF a < b THEN a ELSE b

(***************************************************************************)
(* Byte-string helpers (bytes.startswith, `in`, slicing).                  *)
(***************************************************************************)
StartsWith(d, p) == Len(d) >= Len(p) /\ SubSeq(d, 1, Len(p)) = p

Contains(d, p) == \E i \in 1..(Len(d) - Len(p) + 1) : SubSeq(d, i, i + Len(p) - 1) = p

Take(d, n) == SubSeq(d, 1, Min(n, Len(d)))

\* The byte patterns analyze_raw_data looks for.
B_ESC == <<27>>
B_PCL == <<27, 37, 45, 49, 50, 51, 52, 53, 88>>      \* b'\x1b%-12345X'
B_PS == <<37, 33, 80, 83>>                           \* b'%!PS'
B_STX == <<2>>                                       \* b'\x02'
B_PDF == <<80, 68, 70>>                              \* b'PDF'
B_PCTPDF == <<37, 80, 68, 70>>                       \* b'%PDF'
B_MSOFFICE == <<77, 105, 99, 114, 111, 115, 111, 102, 116, 32, 79, 102, 102, 105, 99, 101>>
B_WORD == <<87, 111, 114, 100>>                      \* b'Word'
B_DOCX == <<46, 100, 111, 99, 120>>                  \* b'.docx'
B_DOC == <<46, 100, 111, 99>>                        \* b'.doc'

(***************************************************************************)
(* bytes.decode('utf-8'): the decoder consumes well-formed sequences of    *)
(* one to four bytes; with errors='ignore' a byte that starts no           *)
(* well-formed sequence is dropped, without it the call raises.            *)
(* Utf8Decode returns the characters (code points) and whether a byte was  *)
(* dropped.                                                                *)
(***************************************************************************)
IsCont(b) == b >= 128 /\ b <= 191

Utf8Need(b) ==
    IF b < 128 THEN 1
    ELSE IF b >= 194 /\ b <= 223 THEN 2
    ELSE IF b >= 224 /\ b <= 239 THEN 3
    ELSE IF b >= 240 /\ b <= 244 THEN 4
    ELSE 0

Utf8SecondOk(b, c) ==
    CASE b = 224 -> c >= 160 /\ c <= 191
      [] b = 237 -> c >= 128 /\ c <= 159
      [] b = 240 -> c >= 144 /\ c <= 191
      [] b = 244 -> c >= 128 /\ c <= 143
      [] OTHER -> IsCont(c)

Utf8WellFormedAt(d) ==
    LET n == Utf8Need(d[1])
    IN  /\ n > 0
        /\ Len(d) >= n
        /\ n >= 2 => Utf8SecondOk(d[1], d[2])
        /\ \A k \in 3..n : IsCont(d[k])

Utf8CodePoint(d) ==
    LET n == Utf8Need(d[1])
    IN  CASE n = 1 -> d[1]
          [] n = 2 -> (d[1] - 192) * 64 + (d[2] - 128)
          [] n = 3 -> (d[1] - 224) * 4096 + (d[2] - 128) * 64 + (d[3] - 128)
          [] OTHER -> (d[1] - 240) * 262144 + (d[2] - 128) * 4096
                      + (d[3] - 128) * 64 + (d[4] - 128)

RECURSIVE Utf8Decode(_)
Utf8Decode(d) ==
    IF d = <<>> THEN [chars |-> <<>>, dropped |-> FALSE]
    ELSE IF Utf8WellFormedAt(d)
         THEN LET n == Utf8Need(d[1])
                  rest == Utf8Decode(SubSeq(d, n + 1, Len(d)))
              IN  [chars |-> <<Utf8CodePoint(d)>> \o rest.chars, dropped |-> rest.dropped]
         ELSE [chars |-> Utf8Decode(Tail(d)).chars, dropped |-> TRUE]

(***************************************************************************)
(* str.isprintable and str.strip's whitespace, for the characters below    *)
(* U+0100 (the buffers of the model decode to such characters only).       *)
(***************************************************************************)
IsPrintable(c) == ~(c <= 31 \/ (c >= 127 /\ c <= 160) \/ c = 173)

IsSpace(c) == (c >= 9 /\ c <= 13) \/ (c >= 28 /\ c <= 32) \/ c = 133 \/ c = 160

RECURSIVE LStrip(_)
LStrip(t) == IF t # <<>> /\ IsSpace(t[1]) THEN LStrip(Tail(t)) ELSE t

RECURSIVE RStrip(_)
RStrip(t) == IF t # <<>> /\ IsSpace(t[Len(t)]) THEN RStrip(SubSeq(t, 1, Len(t) - 1)) ELSE t

Strip(t) == RStrip(LStrip(t))

(***************************************************************************)
(* analyze_raw_data: the format label of a buffer.  The branches are in    *)
(* the order of the if / elif chain of the source.                         *)
(***************************************************************************)
Lbl(name, n) == [name |-> name, len |-> n]

LooksLikeText(d) ==
    LET decoded == Utf8Decode(d).chars
    IN  /\ Len(Strip(decoded)) > 0
        /\ \E i \in 1..Min(TextWindow, Len(decoded)) :
              IsPrintable(decoded[i]) /\ decoded[i] \notin {13, 10, 9}

analyze_raw_data(d) ==
    IF Len(d) = 0 THEN Lbl("Empty data", 0)
    ELSE IF StartsWith(d, B_ESC) THEN Lbl("ESC/P (Epson)", 0)
    ELSE IF StartsWith(d, B_PCL) THEN Lbl("PCL (HP)", 0)
    ELSE IF StartsWith(d, B_PS) THEN Lbl("PostScript", 0)
    ELSE IF StartsWith(d, B_STX) THEN Lbl("ZPL (Zebra)", 0)
    ELSE IF Contains(Take(d, SniffWindow), B_PDF) THEN Lbl("PDF document", 0)
    ELSE IF Contains(d, B_MSOFFICE) \/ Contains(d, B_WORD)
            \/ Contains(d, B_DOCX) \/ Contains(d, B_DOC)
         THEN Lbl("Microsoft Office document", 0)
    ELSE IF Contains(Take(d, SniffWindow), B_PCTPDF) THEN Lbl("PDF format", 0)
    ELSE IF LooksLikeText(d) THEN Lbl("Text document", Len(d))
    ELSE Lbl("Binary/Unknown format", Len(d))

(***************************************************************************)
(* extract_readable_text: UTF-8, else Windows-1252 with errors='ignore'    *)
(* (which cannot raise, so the ASCII attempt that follows it in the source *)
(* is never reached); characters that are neither printable nor newline,   *)
(* carriage return or tab become a space; the result is stripped.          *)
(***************************************************************************)
Cp1252Undefined == {129, 141, 143, 144, 157}

Cp1252High ==
    [b \in (128..159) \ Cp1252Undefined |->
        CASE b = 128 -> 8364 [] b = 130 -> 8218 [] b = 131 -> 402  [] b = 132 -> 8222
          [] b = 133 -> 8230 [] b = 134 -> 8224 [] b = 135 -> 8225 [] b = 136 -> 710
          [] b = 137 -> 8240 [] b = 138 -> 352  [] b = 139 -> 8249 [] b = 140 -> 338
          [] b = 142 -> 381  [] b = 145 -> 8216 [] b = 146 -> 8217 [] b = 147 -> 8220
          [] b = 148 -> 8221 [] b = 149 -> 8226 [] b = 150 -> 8211 [] b = 151 -> 8212
          [] b = 152 -> 732  [] b = 153 -> 8482 [] b = 154 -> 353  [] b = 155 -> 8250
          [] b = 156 -> 339  [] b = 158 -> 382  [] OTHER -> 376]

RECURSIVE Cp1252Decode(_)
Cp1252Decode(d) ==
    IF d = <<>> THEN <<>>
    ELSE LET b == d[1]
             rest == Cp1252Decode(Tail(d))
         IN  IF b \in Cp1252Undefined THEN rest
             ELSE IF b >= 128 /\ b <= 159 THEN <<Cp1252High[b]>> \o rest
             ELSE <<b>> \o rest

Clean(t) == [i \in 1..Len(t) |-> IF IsPrintable(t[i]) \/ t[i] \in {10, 13, 9} THEN t[i] ELSE 32]

extract_readable_text(d) ==
    LET u == Utf8Decode(d)
    IN  IF ~u.dropped THEN Strip(Clean(u.chars))
        ELSE Strip(Clean(Cp1252Decode(d)))

(***************************************************************************)
(* convert_raw_to_pdf and add_hex_dump_to_pdf, on the path where the file  *)
(* system and the PDF library do not fail.  The PDF file is modelled by    *)
(* its magic bytes followed by the characters drawn on its content pages,  *)
(* in drawing order.                                                       *)
(***************************************************************************)
HexDigit(n) == IF n < 10 THEN 48 + n ELSE 87 + n

RECURSIVE Hex(_)
Hex(d) == IF d = <<>> THEN <<>> ELSE <<HexDigit(d[1] \div 16), HexDigit(d[1] % 16)>> \o Hex(Tail(d))

Ascii(d) == [i \in 1..Len(d) |-> IF d[i] >= 32 /\ d[i] <= 126 THEN d[i] ELSE 46]

HexDumpBytes == 2000
AsciiDumpBytes == 1000

add_hex_dump_to_pdf(raw) == Hex(Take(raw, HexDumpBytes)) \o Ascii(Take(raw, AsciiDumpBytes))

convert_raw_to_pdf(raw) ==
    LET text_content == extract_readable_text(raw)
    IN  B_PCTPDF \o (IF Len(Strip(text_content)) > 0
                     THEN text_content
                     ELSE add_hex_dump_to_pdf(raw))

(***************************************************************************)
(* The network side.                                                       *)
(*                                                                         *)
(* The i-th byte a peer sends on connection c is Byte(c, i): the bytes of  *)
(* different connections and of different positions are all different, so  *)
(* a buffer that lost, repeated, reordered or borrowed a byte differs from *)
(* what its peer sent.                                                     *)
(***************************************************************************)
Byte(c, i) == 64 + 8 * c + i

Payload(c, n) == [i \in 1..n |-> Byte(c, i)]

PrinterNames == {"", "HP LaserJet", "Microsoft Print to PDF"}

\* Whether a printer name contains "pdf", in any case.
ContainsPdf(name) == name \in {"Microsoft Print to PDF"}

TheSocket == "sock"

NoLabel == Lbl("none", 0)

Pending(c) == peer[c] # "idle" /\ wpc[c] = "none"

\* The listener thread is in the accept loop of start_server.
Listening == lpc \in {"loop", "accept"}

FirstPending(c) == Pending(c) /\ \A d \in Conns : Pending(d) => c <= d

InitNet ==
    /\ SERVER_RUNNING = TRUE
    /\ running = FALSE
    /\ server_socket = None
    /\ lsock = "unborn"
    /\ lpc = "init"
    /\ lexc = FALSE
    /\ result = "none"
    /\ cpc = "idle"
    /\ peer = [c \in Conns |-> "idle"]
    /\ sentLen = [c \in Conns |-> 0]
    /\ rcvd = [c \in Conns |-> 0]
    /\ data = [c \in Conns |-> <<>>]
    /\ wpc = [c \in Conns |-> "none"]
    /\ csock = [c \in Conns |-> "none"]
    /\ closes = [c \in Conns |-> 0]
    /\ jobs = [c \in Conns |-> <<>>]
    /\ printed = [c \in Conns |-> <<>>]
    /\ readErr = [c \in Conns |-> FALSE]
    /\ binds = 0
    /\ bindFailed = FALSE
    /\ acceptFailed = FALSE
    /\ stopSeen = FALSE
    /\ stopListening = FALSE
    /\ inFlightAtStop = {}

\* No analyze_raw_data call is modelled.
FnUnused ==
    /\ buf = <<>>
    /\ label = NoLabel

\* the key is not in the print_settings dict
Absent == "absent"

\* print_settings=None
NoSettings == [given |-> FALSE, orientation |-> Absent, duplex |-> Absent,
               paperSize |-> Absent, quality |-> Absent, colorMode |-> Absent,
               copies |-> [kind |-> Absent, n |-> 0]]

\* pDevMode before it is read, and the device mode of a SetPrinter call
\* that was not made
NoMode == [Orientation |-> 0, Duplex |-> 0, PaperSize |-> 0, PrintQuality |-> 0, Color |-> 0]

\* No print_raw call with settings is modelled.
DeviceUnused ==
    /\ print_settings = NoSettings
    /\ devDefault = NoMode
    /\ dpc = "unused"
    /\ hPrinter = "none"
    /\ hJob = "none"
    /\ pDevMode = NoMode
    /\ fieldsSet = {}
    /\ committed = NoMode
    /\ copies = 1
    /\ copy_num = 0
    /\ calls = <<>>
    /\ applyFail = "none"
    /\ printFail = "none"
    /\ dresult = "none"

\* a bytes value / None, as value of pdf_data and of the result
Bytes(b) == [kind |-> "bytes", bytes |-> b]

NoBytes == [kind |-> "None", bytes |-> <<>>]

\* convert_raw_to_pdf has not returned
NotReturned == [kind |-> "pending", bytes |-> <<>>]

\* No convert_raw_to_pdf call is modelled.
RenderUnused ==
    /\ save_file = FALSE
    /\ rpc = "unused"
    /\ temp_pdf = "none"
    /\ canvas_body = <<>>
    /\ pdf_data = NoBytes
    /\ rresult = NotReturned
    /\ renderFail = "none"

\* self.config_path = None
NoPath == "no path"

\* default_config of load_config
default_config ==
    [k \in {"printer_name", "port", "use_pdf_conversion", "save_pdf_file", "auto_start",
            "service_name", "service_description", "manual", "minimize_to_tray"} |->
        CASE k = "printer_name" -> ""
          [] k = "port" -> 9100
          [] k = "use_pdf_conversion" -> TRUE
          [] k = "save_pdf_file" -> FALSE
          [] k = "auto_start" -> FALSE
          [] k = "service_name" -> "PrinterOne"
          [] k = "service_description" -> "PrinterOne - Network print server for raw print data"
          [] k = "manual" -> FALSE
          [] k = "minimize_to_tray" -> TRUE]

\* one run of load_config or save_config: which, whether it returned (load)
\* or what it returned (save), self.config after it, self.running at its call
Op(name, ok, cfg, run) == [op |-> name, ok |-> ok, config |-> cfg, running |-> run]

\* No load_config or save_config call is modelled.
ConfigUnused ==
    /\ fs = <<>>
    /\ tempdir = "usable"
    /\ config = default_config
    /\ config_path = NoPath
    /\ lastOp = Op("none", TRUE, default_config, FALSE)
    /\ prevOp = Op("none", TRUE, default_config, FALSE)

\* An address is its four octets; no address yet.
NoAddr == <<>>

\* test_socket.connect / getsockname, gethostbyname: they raise, or give an address
Raises == [outcome |-> "raise", addr |-> NoAddr]

Gives(a) == [outcome |-> "ok", addr |-> a]

\* No get_local_ip call is modelled.
IpUnused ==
    /\ probe = Raises
    /\ interfaces = [fails |-> TRUE, list |-> <<>>]
    /\ hostaddr = Raises
    /\ ipc = "unused"
    /\ via = "none"
    /\ local_ip = NoAddr

\* the process that runs the server
Self == "self"

\* No kill_process_on_port call is modelled in detail.
KillUnused ==
    /\ listeners = <<>>
    /\ alive = {Self}
    /\ kidx = 0
    /\ signals = <<>>
    /\ reclaims = 0

\* Threads that run start_server, and the server objects.
Starters == {1, 2}

Instances == {1, 2}

ThreadName(t) == IF t = 1 THEN "t1" ELSE "t2"

\* One server object and one thread are modelled (by the variables above).
MultiUnused ==
    /\ obj = [t \in Starters |-> 1]
    /\ instRunning = [o \in Instances |-> FALSE]
    /\ instSocket = [o \in Instances |-> 0]
    /\ sockState = [s \in Starters |-> "unborn"]
    /\ mpc = [t \in Starters |-> "unused"]
    /\ mexc = [t \in Starters |-> FALSE]
    /\ acceptErr = [t \in Starters |-> FALSE]
    /\ servedOn = [t \in Starters |-> {}]
    /\ closedBy = [s \in Starters |-> "none"]
    /\ stopped = {}

Draw(kind, y) == [kind |-> kind, y |-> y]

\* No page layout is modelled.
PageUnused ==
    /\ nbytes = 0
    /\ ppc = "unused"
    /\ y_position = 0
    /\ pleft = 0
    /\ chunks = 0
    /\ lastDraw = Draw("none", 0)

AuxUnused == IpUnused /\ KillUnused /\ MultiUnused /\ PageUnused

\* A listener that was started and is in its accept loop, no connection yet.
InitNetRunning ==
    /\ SERVER_RUNNING = TRUE
    /\ running = TRUE
    /\ server_socket = TheSocket
    /\ lsock = "listening"
    /\ portOwner = "self"
    /\ lpc = "loop"
    /\ lexc = FALSE
    /\ result = "none"
    /\ cpc = "idle"
    /\ peer = [c \in Conns |-> "idle"]
    /\ sentLen = [c \in Conns |-> 0]
    /\ rcvd = [c \in Conns |-> 0]
    /\ data = [c \in Conns |-> <<>>]
    /\ wpc = [c \in Conns |-> "none"]
    /\ csock = [c \in Conns |-> "none"]
    /\ closes = [c \in Conns |-> 0]
    /\ jobs = [c \in Conns |-> <<>>]
    /\ printed = [c \in Conns |-> <<>>]
    /\ readErr = [c \in Conns |-> FALSE]
    /\ binds = 1
    /\ bindFailed = FALSE
    /\ acceptFailed = FALSE
    /\ stopSeen = FALSE
    /\ stopListening = FALSE
    /\ inFlightAtStop = {}

Init ==
    /\ InitNet
    /\ printer_name \in PrinterNames
    /\ use_pdf_conversion \in BOOLEAN
    /\ portOwner \in {"free", "foreign"}
    /\ FnUnused
    /\ DeviceUnused
    /\ RenderUnused
    /\ ConfigUnused
    /\ AuxUnused

serverVars == <<SERVER_RUNNING, running, server_socket, lsock, portOwner>>
configVars == <<printer_name, use_pdf_conversion>>
connVars == <<peer, sentLen, rcvd, data, wpc, csock, closes, jobs, printed, readErr>>
histVars == <<binds, bindFailed, acceptFailed, stopSeen, stopListening, inFlightAtStop>>
listenerVars == <<lpc, lexc, result>>
controlVars == <<cpc>>

(***************************************************************************)
(* start_server, statement by statement, run by the listener thread.       *)
(***************************************************************************)
\* PrinterOneGUI.start_server launches the thread; console mode calls directly.
Start ==
    /\ lpc = "init"
    /\ lpc' = "begin"
    /\ UNCHANGED <<serverVars, configVars, connVars, histVars, controlVars, lexc, result, offnet>>

\* SERVER_RUNNING = True; return False when no printer is configured.
L_Begin ==
    /\ lpc = "begin"
    /\ SERVER_RUNNING' = TRUE
    /\ IF printer_name = ""
       THEN lpc' = "returned" /\ result' = "false"
       ELSE lpc' = "kill" /\ result' = result
    /\ UNCHANGED <<running, server_socket, lsock, portOwner, configVars, connVars,
                   histVars, controlVars, lexc, offnet>>

\* kill_process_on_port: a foreign owner of the port is terminated, or the
\* attempt fails (AccessDenied, NoSuchProcess, enumeration error) and is logged.
L_Kill ==
    /\ lpc = "kill"
    /\ \E killed \in BOOLEAN :
          portOwner' = IF portOwner = "foreign" /\ killed THEN "free" ELSE portOwner
    /\ lpc' = "create"
    /\ UNCHANGED <<SERVER_RUNNING, running, server_socket, lsock, configVars, connVars,
                   histVars, controlVars, lexc, result, offnet>>

\* self.server_socket = socket.socket(...)
L_Create ==
    /\ lpc = "create"
    /\ server_socket' = TheSocket
    /\ lsock' = "open"
    /\ lpc' = "config"
    /\ UNCHANGED <<SERVER_RUNNING, running, portOwner, configVars, connVars,
                   histVars, controlVars, lexc, result, offnet>>

\* self.server_socket.setsockopt(...); self.server_socket.settimeout(1.0):
\* outside the try block, so an error here leaves start_server by an exception.
L_Config ==
    /\ lpc = "config"
    /\ IF server_socket = None \/ lsock = "closed"
       THEN lpc' = "returned" /\ result' = "raised"
       ELSE lpc' = "bind" /\ result' = result
    /\ UNCHANGED <<serverVars, configVars, connVars, histVars, controlVars, lexc, offnet>>

\* Variant of L_Bind: a failed bind returns False at once, without the finally block.
L_BindNoCleanup ==
    /\ lpc = "bind"
    /\ binds' = binds + 1
    /\ IF server_socket = None \/ lsock = "closed" \/ portOwner = "foreign"
       THEN /\ bindFailed' = TRUE
            /\ lexc' = TRUE
            /\ lpc' = "ret"
            /\ UNCHANGED <<lsock, portOwner>>
       ELSE /\ lsock' = "listening"
            /\ portOwner' = "self"
            /\ lpc' = "setrun"
            /\ UNCHANGED <<bindFailed, lexc>>
    /\ UNCHANGED <<SERVER_RUNNING, running, server_socket, configVars, connVars,
                   acceptFailed, stopSeen, stopListening, inFlightAtStop, controlVars, result, offnet>>

\* self.server_socket.bind(('0.0.0.0', port)); self.server_socket.listen(5)
L_Bind ==
    /\ lpc = "bind"
    /\ binds' = binds + 1
    /\ IF server_socket = None \/ lsock = "closed" \/ portOwner = "foreign"
       THEN /\ bindFailed' = TRUE
            /\ lexc' = TRUE
            /\ lpc' = "st1"
            /\ UNCHANGED <<lsock, portOwner>>
       ELSE /\ lsock' = "listening"
            /\ portOwner' = "self"
            /\ lpc' = "setrun"
            /\ UNCHANGED <<bindFailed, lexc>>
    /\ UNCHANGED <<SERVER_RUNNING, running, server_socket, configVars, connVars,
                   acceptFailed, stopSeen, stopListening, inFlightAtStop, controlVars, result, offnet>>

\* self.running = True (the logging and get_local_ip that follow change nothing)
L_SetRunning ==
    /\ lpc = "setrun"
    /\ running' = TRUE
    /\ lpc' = "loop"
    /\ UNCHANGED <<SERVER_RUNNING, server_socket, lsock, portOwner, configVars, connVars,
                   histVars, controlVars, lexc, result, offnet>>

\* while SERVER_RUNNING and self.running:
L_Loop ==
    /\ lpc = "loop"
    /\ lpc' = IF SERVER_RUNNING /\ running THEN "accept" ELSE "st1"
    /\ UNCHANGED <<serverVars, configVars, connVars, histVars, controlVars, lexc, result, offnet>>

\* Variant of AcceptClient: the listener serves a connection itself, so that it
\* takes the next one only when no job is being processed.
AcceptClientInline(c) ==
    /\ lpc = "accept"
    /\ server_socket # None
    /\ lsock = "listening"
    /\ FirstPending(c)
    /\ \A d \in Conns : wpc[d] \in {"none", "done"}
    /\ wpc' = [wpc EXCEPT ![c] = "recv"]
    /\ csock' = [csock EXCEPT ![c] = "open"]
    /\ lpc' = "loop"
    /\ UNCHANGED <<serverVars, configVars, peer, sentLen, rcvd, data, closes, jobs, printed,
                   readErr, histVars, controlVars, lexc, result, offnet>>

\* accept() returns a connection: a thread running handle_client is started for it.
AcceptClient(c) ==
    /\ lpc = "accept"
    /\ server_socket # None
    /\ lsock = "listening"
    /\ FirstPending(c)
    /\ wpc' = [wpc EXCEPT ![c] = "recv"]
    /\ csock' = [csock EXCEPT ![c] = "open"]
    /\ lpc' = "loop"
    /\ UNCHANGED <<serverVars, configVars, peer, sentLen, rcvd, data, closes, jobs, printed,
                   readErr, histVars, controlVars, lexc, result, offnet>>

\* accept() raises socket.timeout after one second without a connection: continue.
AcceptTimeout ==
    /\ lpc = "accept"
    /\ server_socket # None
    /\ lsock = "listening"
    /\ \A c \in Conns : ~Pending(c)
    /\ lpc' = "loop"
    /\ UNCHANGED <<serverVars, configVars, connVars, histVars, controlVars, lexc, result, offnet>>

\* Variant of AcceptOnClosed: accept() without a timeout, which a close of the
\* socket by another thread does not wake.
AcceptBlocksForever ==
    /\ FALSE
    /\ UNCHANGED vars

\* accept() raises because stop_server closed the socket or cleared the field: break.
AcceptOnClosed ==
    /\ lpc = "accept"
    /\ server_socket = None \/ lsock = "closed"
    /\ lpc' = "st1"
    /\ UNCHANGED <<serverVars, configVars, connVars, histVars, controlVars, lexc, result, offnet>>

\* accept() raises any other error on the open socket (ECONNABORTED, EMFILE, ...): break.
AcceptFails ==
    /\ lpc = "accept"
    /\ server_socket # None
    /\ lsock = "listening"
    /\ acceptFailed' = TRUE
    /\ lpc' = "st1"
    /\ UNCHANGED <<serverVars, configVars, connVars, binds, bindFailed, stopSeen,
                   stopListening, inFlightAtStop, controlVars, lexc, result, offnet>>

\* return False from the except block, return True after the loop.
L_Return ==
    /\ lpc = "ret"
    /\ result' = IF lexc THEN "false" ELSE "true"
    /\ lpc' = "returned"
    /\ UNCHANGED <<serverVars, configVars, connVars, histVars, controlVars, lexc, offnet>>

(***************************************************************************)
(* stop_server.  It is run by the listener thread ("L", from the finally   *)
(* block of start_server) and by the controlling thread ("C",              *)
(* PrinterOneGUI.stop_server / quit_app).  St1 .. St5 are its statements;  *)
(* StopServer is a whole call by the controlling thread.                   *)
(***************************************************************************)
Threads == {"L", "C"}

PcOf(t) == IF t = "L" THEN lpc ELSE cpc

SetPc(t, v) == IF t = "L" THEN lpc' = v /\ cpc' = cpc ELSE cpc' = v /\ lpc' = lpc

AfterStop(t) == IF t = "L" THEN "ret" ELSE "idle"

\* What a call of stop_server by the controlling thread adds to the history.
StopHistory ==
    /\ stopSeen' = TRUE
    /\ stopListening' = (stopListening \/ Listening)
    /\ inFlightAtStop' = IF stopSeen THEN inFlightAtStop
                         ELSE {c \in Conns : wpc[c] = "recv"}

\* Variant of StopServer: stop also closes the sockets of the connections being served.
StopServerSevering ==
    /\ cpc = "idle"
    /\ StopHistory
    /\ SERVER_RUNNING' = FALSE
    /\ running' = FALSE
    /\ IF server_socket # None
       THEN /\ lsock' = "closed"
            /\ portOwner' = IF portOwner = "self" THEN "free" ELSE portOwner
       ELSE UNCHANGED <<lsock, portOwner>>
    /\ server_socket' = None
    /\ csock' = [c \in Conns |-> IF csock[c] = "open" THEN "closed" ELSE csock[c]]
    /\ UNCHANGED <<configVars, peer, sentLen, rcvd, data, wpc, closes, jobs, printed, readErr,
                   binds, bindFailed, acceptFailed, listenerVars, cpc, offnet>>

\* The controlling thread calls stop_server and runs it to its end:
\* both flags are cleared, the listening socket, if any, is closed and the
\* field is set to None.
StopServer ==
    /\ cpc = "idle"
    /\ StopHistory
    /\ SERVER_RUNNING' = FALSE
    /\ running' = FALSE
    /\ IF server_socket # None
       THEN /\ lsock' = "closed"
            /\ portOwner' = IF portOwner = "self" THEN "free" ELSE portOwner
       ELSE UNCHANGED <<lsock, portOwner>>
    /\ server_socket' = None
    /\ UNCHANGED <<configVars, connVars, binds, bindFailed, acceptFailed,
                   listenerVars, cpc, offnet>>

\* The controlling thread enters stop_server, to run it statement by statement.
StopRequest ==
    /\ cpc = "idle"
    /\ cpc' = "st1"
    /\ StopHistory
    /\ UNCHANGED <<serverVars, configVars, connVars, binds, bindFailed, acceptFailed,
                   listenerVars, offnet>>

\* SERVER_RUNNING = False
St1(t) ==
    /\ PcOf(t) = "st1"
    /\ SERVER_RUNNING' = FALSE
    /\ SetPc(t, "st2")
    /\ UNCHANGED <<running, server_socket, lsock, portOwner, configVars, connVars,
                   histVars, lexc, result, offnet>>

\* self.running = False
St2(t) ==
    /\ PcOf(t) = "st2"
    /\ running' = FALSE
    /\ SetPc(t, "st3")
    /\ UNCHANGED <<SERVER_RUNNING, server_socket, lsock, portOwner, configVars, connVars,
                   histVars, lexc, result, offnet>>

\* if self.server_socket:
St3(t) ==
    /\ PcOf(t) = "st3"
    /\ SetPc(t, IF server_socket # None THEN "st4" ELSE AfterStop(t))
    /\ UNCHANGED <<serverVars, configVars, connVars, histVars, lexc, result, offnet>>

\* try: self.server_socket.close()  except: pass
\* (the field is read again: when it is None by now, the AttributeError is swallowed)
St4(t) ==
    /\ PcOf(t) = "st4"
    /\ IF server_socket # None
       THEN /\ lsock' = "closed"
            /\ portOwner' = IF portOwner = "self" THEN "free" ELSE portOwner
       ELSE UNCHANGED <<lsock, portOwner>>
    /\ SetPc(t, "st5")
    /\ UNCHANGED <<SERVER_RUNNING, running, server_socket, configVars, connVars,
                   histVars, lexc, result, offnet>>

\* self.server_socket = None
St5(t) ==
    /\ PcOf(t) = "st5"
    /\ server_socket' = None
    /\ SetPc(t, AfterStop(t))
    /\ UNCHANGED <<SERVER_RUNNING, running, lsock, portOwner, configVars, connVars,
                   histVars, lexc, result, offnet>>

(***************************************************************************)
(* The remote peers.  What a peer sends, and its close or reset, reaches   *)
(* the server only through recv, and what it does before its connection is *)
(* accepted waits in the kernel until the worker reads: a peer's steps are *)
(* therefore taken while its worker is reading, which leaves out no        *)
(* sequence of recv results.                                               *)
(***************************************************************************)
\* A client connects to the listening port; connection ids are handed out in order.
Connect(c) ==
    /\ peer[c] = "idle"
    /\ lsock = "listening"
    /\ IF c = 1 THEN TRUE ELSE peer[c - 1] # "idle"
    /\ Cardinality({d \in Conns : Pending(d)}) < Backlog
    /\ peer' = [peer EXCEPT ![c] = "open"]
    /\ UNCHANGED <<serverVars, configVars, sentLen, rcvd, data, wpc, csock, closes, jobs, printed,
                   readErr, histVars, listenerVars, controlVars, offnet>>

PeerSend(c) ==
    /\ wpc[c] = "recv"
    /\ peer[c] = "open"
    /\ sentLen[c] < MaxLen
    /\ sentLen' = [sentLen EXCEPT ![c] = @ + 1]
    /\ UNCHANGED <<serverVars, configVars, peer, rcvd, data, wpc, csock, closes, jobs, printed,
                   readErr, histVars, listenerVars, controlVars, offnet>>

\* The peer closes its end: the worker reads EOF after the bytes in flight.
PeerClose(c) ==
    /\ wpc[c] = "recv"
    /\ peer[c] = "open"
    /\ peer' = [peer EXCEPT ![c] = "closed"]
    /\ UNCHANGED <<serverVars, configVars, sentLen, rcvd, data, wpc, csock, closes, jobs, printed,
                   readErr, histVars, listenerVars, controlVars, offnet>>

\* The peer resets the connection: the next recv raises.
PeerReset(c) ==
    /\ wpc[c] = "recv"
    /\ peer[c] = "open"
    /\ peer' = [peer EXCEPT ![c] = "reset"]
    /\ UNCHANGED <<serverVars, configVars, sentLen, rcvd, data, wpc, csock, closes, jobs, printed,
                   readErr, histVars, listenerVars, controlVars, offnet>>

(***************************************************************************)
(* handle_client, run by one worker thread per accepted connection.        *)
(***************************************************************************)
\* Variant of RecvAppend: the chunk is put in front of the buffer.
RecvPrepend(d, chunk) == chunk \o d

\* data += chunk
RecvAppend(d, chunk) == d \o chunk

\* Variant of DispatchBytes: the buffer is rendered for a PDF printer.
DispatchRendered(d) ==
    IF ContainsPdf(printer_name) /\ use_pdf_conversion THEN convert_raw_to_pdf(d) ELSE d

\* The buffer handle_client passes to print_raw.
DispatchBytes(d) == d

\* chunk = client_socket.recv(4096) returns some of the bytes in flight.
RecvChunk(c) ==
    /\ wpc[c] = "recv"
    /\ csock[c] = "open"
    /\ peer[c] # "reset"
    /\ rcvd[c] < sentLen[c]
    /\ \E k \in 1..Min(RecvSize, sentLen[c] - rcvd[c]) :
          /\ data' = [data EXCEPT ![c] =
                        RecvAppend(@, SubSeq(Payload(c, sentLen[c]), rcvd[c] + 1, rcvd[c] + k))]
          /\ rcvd' = [rcvd EXCEPT ![c] = @ + k]
    /\ UNCHANGED <<serverVars, configVars, peer, sentLen, wpc, csock, closes, jobs, printed,
                   readErr, histVars, listenerVars, controlVars, offnet>>

\* recv returns b"" (EOF): the loop ends.  A non-empty buffer is passed to
\* print_raw when a printer is configured; otherwise the handler logs, and
\* its finally block closes the client socket.
RecvEOF(c) ==
    /\ wpc[c] = "recv"
    /\ csock[c] = "open"
    /\ peer[c] = "closed"
    /\ rcvd[c] = sentLen[c]
    /\ IF data[c] # <<>> /\ printer_name # ""
       THEN /\ jobs' = [jobs EXCEPT ![c] = Append(@, DispatchBytes(data[c]))]
            /\ wpc' = [wpc EXCEPT ![c] = "print"]
            /\ csock' = csock
            /\ closes' = closes
       ELSE /\ jobs' = jobs
            /\ wpc' = [wpc EXCEPT ![c] = "done"]
            /\ csock' = [csock EXCEPT ![c] = "closed"]
            /\ closes' = [closes EXCEPT ![c] = @ + 1]
    /\ UNCHANGED <<serverVars, configVars, peer, sentLen, rcvd, data, printed,
                   readErr, histVars, listenerVars, controlVars, offnet>>

\* Variant of RecvError: the close sits at the end of the try block rather
\* than in a finally block, so a read error leaves the client socket open.
RecvErrorLeak(c) ==
    /\ wpc[c] = "recv"
    /\ peer[c] = "reset" \/ csock[c] = "closed"
    /\ readErr' = [readErr EXCEPT ![c] = TRUE]
    /\ wpc' = [wpc EXCEPT ![c] = "done"]
    /\ UNCHANGED <<serverVars, configVars, peer, sentLen, rcvd, data, csock, closes, jobs,
                   printed, histVars, listenerVars, controlVars, offnet>>

\* recv raises (connection reset, socket closed under the worker): the except
\* block logs, the finally block closes the client socket.
RecvError(c) ==
    /\ wpc[c] = "recv"
    /\ peer[c] = "reset" \/ csock[c] = "closed"
    /\ readErr' = [readErr EXCEPT ![c] = TRUE]
    /\ wpc' = [wpc EXCEPT ![c] = "done"]
    /\ csock' = [csock EXCEPT ![c] = "closed"]
    /\ closes' = [closes EXCEPT ![c] = @ + 1]
    /\ UNCHANGED <<serverVars, configVars, peer, sentLen, rcvd, data, jobs, printed,
                   histVars, listenerVars, controlVars, offnet>>

\* Variant of PrintDone: a failed print_raw is tried again.
PrintDoneRetry(c) ==
    /\ wpc[c] = "print"
    /\ \E ok \in BOOLEAN :
          /\ printed' = [printed EXCEPT ![c] = Append(@, ok)]
          /\ IF ok
             THEN /\ wpc' = [wpc EXCEPT ![c] = "done"]
                  /\ csock' = [csock EXCEPT ![c] = "closed"]
                  /\ closes' = [closes EXCEPT ![c] = @ + 1]
                  /\ jobs' = jobs
             ELSE /\ jobs' = [jobs EXCEPT ![c] = Append(@, DispatchBytes(data[c]))]
                  /\ UNCHANGED <<wpc, csock, closes>>
    /\ UNCHANGED <<serverVars, configVars, peer, sentLen, rcvd, data,
                   readErr, histVars, listenerVars, controlVars, offnet>>

\* print_raw returns True or, on a device error, False; handle_client ignores
\* the result, and its finally block closes the client socket.
PrintDone(c) ==
    /\ wpc[c] = "print"
    /\ \E ok \in BOOLEAN : printed' = [printed EXCEPT ![c] = Append(@, ok)]
    /\ wpc' = [wpc EXCEPT ![c] = "done"]
    /\ csock' = [csock EXCEPT ![c] = "closed"]
    /\ closes' = [closes EXCEPT ![c] = @ + 1]
    /\ UNCHANGED <<serverVars, configVars, peer, sentLen, rcvd, data, jobs,
                   readErr, histVars, listenerVars, controlVars, offnet>>

ListenerStep ==
    \/ L_Begin \/ L_Kill \/ L_Create \/ L_Config \/ L_Bind \/ L_SetRunning \/ L_Loop
    \/ \E c \in Conns : AcceptClient(c)
    \/ AcceptTimeout \/ AcceptOnClosed \/ AcceptFails
    \/ St1("L") \/ St2("L") \/ St3("L") \/ St4("L") \/ St5("L")
    \/ L_Return

ControllerStep == St1("C") \/ St2("C") \/ St3("C") \/ St4("C") \/ St5("C")

WorkerStep(c) == RecvChunk(c) \/ RecvEOF(c) \/ RecvError(c) \/ PrintDone(c)

PeerStep(c) == Connect(c) \/ PeerSend(c) \/ PeerClose(c) \/ PeerReset(c)

(***************************************************************************)
(* Spec: the server with its connections; a stop_server call of the        *)
(* controlling thread is one step.                                         *)
(***************************************************************************)
Next ==
    \/ Start
    \/ StopServer
    \/ ListenerStep
    \/ \E c \in Conns : WorkerStep(c)
    \/ \E c \in Conns : PeerStep(c)

Spec == Init /\ [][Next]_vars

\* Threads that can run are scheduled; peers and the operator owe nothing.
FairSpec ==
    /\ Spec
    /\ WF_vars(ListenerStep)
    /\ \A c \in Conns : WF_vars(WorkerStep(c))

(***************************************************************************)
(* RaceSpec: start_server against stop_server run statement by statement   *)
(* by the controlling thread; connections are made and accepted, and their *)
(* workers are left alone.                                                 *)
(***************************************************************************)
RaceNext ==
    \/ Start
    \/ StopRequest
    \/ ControllerStep
    \/ ListenerStep
    \/ \E c \in Conns : Connect(c)

RaceSpec == Init /\ [][RaceNext]_vars

FairRaceSpec ==
    /\ RaceSpec
    /\ WF_vars(ListenerStep)
    /\ WF_vars(ControllerStep)

(***************************************************************************)
(* ClassifySpec: analyze_raw_data applied to one buffer.  The buffers are  *)
(* a head that triggers (or nearly triggers) one of the rules, followed by *)
(* a free tail.                                                            *)
(***************************************************************************)
TailBytes == {2, 27, 32, 37, 65, 255}

RECURSIVE SeqsUpTo(_, _)
SeqsUpTo(S, n) ==
    IF n = 0 THEN {<<>>}
    ELSE LET shorter == SeqsUpTo(S, n - 1)
         IN  shorter \cup {Append(t, x) : t \in shorter, x \in S}

ClassifyHeads ==
    {<<>>, B_ESC, B_PCL, SubSeq(B_PCL, 1, 8), B_PS, B_STX, B_PDF, B_PCTPDF, B_WORD, B_DOC,
     <<65>>, <<32>>, <<10>>, <<255>>, <<195, 169>>}

ClassifyInputs == {h \o t : h \in ClassifyHeads, t \in SeqsUpTo(TailBytes, MaxTail)}

InitClassify ==
    /\ InitNet
    /\ printer_name = ""
    /\ use_pdf_conversion = TRUE
    /\ portOwner = "free"
    /\ buf \in ClassifyInputs
    /\ label = NoLabel
    /\ DeviceUnused
    /\ RenderUnused
    /\ ConfigUnused
    /\ AuxUnused

Classify ==
    /\ label = NoLabel
    /\ label' = analyze_raw_data(buf)
    /\ UNCHANGED <<netvars, buf, devvars, pdfvars, cfgvars, auxvars>>

ClassifySpec == InitClassify /\ [][Classify]_vars

(***************************************************************************)
(* print_raw with a settings record, and apply_print_settings, against one *)
(* printer device.  Every device call can fail.                            *)
(***************************************************************************)

MaxCopies == 2      \* largest copies value a settings record asks for

\* One enumerated value other than the code's fallback, and one value
\* outside the enumerated set, for each field.
OrientationValues == {Absent, "landscape", "sideways"}
DuplexValues == {Absent, "duplex_short", "booklet"}
\* a JSON array given as a value: unhashable, so `in paper_sizes` raises
JsonArray == "[array]"
PaperSizeValues == {Absent, "Legal", "B5", JsonArray}
QualityValues == {Absent, "draft", "ultra"}
ColorModeValues == {Absent, "grayscale", "sepia"}
\* the copies entry: absent, an integer, or a text int() rejects
CopiesValues == {[kind |-> Absent, n |-> 0], [kind |-> "text", n |-> 0]}
                    \cup {[kind |-> "int", n |-> k] : k \in (0 - 1)..MaxCopies}

SettingsFields == [orientation : OrientationValues, duplex : DuplexValues,
                   paperSize : PaperSizeValues, quality : QualityValues,
                   colorMode : ColorModeValues, copies : CopiesValues]

SettingsInputs == {NoSettings} \cup
    {[given |-> TRUE, orientation |-> f.orientation, duplex |-> f.duplex,
      paperSize |-> f.paperSize, quality |-> f.quality, colorMode |-> f.colorMode,
      copies |-> f.copies] : f \in SettingsFields}

\* `if print_settings:` -- None and the empty dict are both false
Truthy(ps) ==
    /\ ps.given
    /\ \/ ps.orientation # Absent \/ ps.duplex # Absent \/ ps.paperSize # Absent
       \/ ps.quality # Absent \/ ps.colorMode # Absent \/ ps.copies.kind # Absent

\* A device whose current mode differs from every value the code falls back to.
DeviceDefault == [Orientation |-> 2, Duplex |-> 2, PaperSize |-> 1,
                  PrintQuality |-> 0 - 3, Color |-> 1]

\* print_settings.get(key, default)
Get(v, default) == IF v = Absent THEN default ELSE v

OrientationCode(v) == IF v = "landscape" THEN 2 ELSE 1

DuplexCode(v) ==
    LET duplex_mode == Get(v, "simplex")
    IN  IF duplex_mode = "duplex_long" THEN 2
        ELSE IF duplex_mode = "duplex_short" THEN 3
        ELSE 1

paper_sizes == [p \in {"A3", "A4", "A5", "Letter", "Legal"} |->
                   CASE p = "A3" -> 8 [] p = "A4" -> 9 [] p = "A5" -> 11
                     [] p = "Letter" -> 1 [] p = "Legal" -> 5]

quality_settings == [q \in {"draft", "normal", "high", "best"} |->
                        CASE q = "draft" -> 0 - 1 [] q = "normal" -> 0 - 2
                          [] q = "high" -> 0 - 3 [] q = "best" -> 0 - 4]

ColorCode(v) ==
    LET color_mode == Get(v, "color")
    IN  IF color_mode = "monochrome" THEN 1
        ELSE IF color_mode = "grayscale" THEN 1
        ELSE 2

\* Where print_raw goes on after apply_print_settings returned.
ApplyReturn == "startdoc"

\* Variant of AfterApplyError: an error inside apply_print_settings reaches
\* the except block of print_raw.
AfterApplyErrorRaise == "except"

\* apply_print_settings' own `except Exception` logs and falls off the end of
\* the function: print_raw goes on.
AfterApplyError == ApplyReturn

\* Variant of ClampCopies: the requested number is used as it is.
KeepCopies(n) == n

\* max(1, int(copies))
ClampCopies(n) == IF n < 1 THEN 1 ELSE n

InitDevice ==
    /\ InitNet
    /\ printer_name = "HP LaserJet"
    /\ use_pdf_conversion = TRUE
    /\ portOwner = "free"
    /\ FnUnused
    /\ RenderUnused
    /\ ConfigUnused
    /\ AuxUnused
    /\ print_settings \in SettingsInputs
    /\ devDefault = DeviceDefault
    /\ dpc = "open"
    /\ hPrinter = "none"
    /\ hJob = "none"
    /\ pDevMode = NoMode
    /\ fieldsSet = {}
    /\ committed = NoMode
    /\ copies = 1
    /\ copy_num = 0
    /\ calls = <<>>
    /\ applyFail = "none"
    /\ printFail = "none"
    /\ dresult = "none"

notDev == <<netvars, fnvars, pdfvars, cfgvars, auxvars>>

\* hPrinter = win32print.OpenPrinter(printer_name); `if print_settings:`
P_Open ==
    /\ dpc = "open"
    /\ calls' = Append(calls, "OpenPrinter")
    /\ \/ /\ hPrinter' = "open"
          /\ dpc' = IF Truthy(print_settings) THEN "getmode" ELSE "startdoc"
          /\ UNCHANGED printFail
       \/ /\ printFail' = "open"
          /\ dpc' = "except"
          /\ UNCHANGED hPrinter
    /\ UNCHANGED <<notDev, print_settings, devDefault, hJob, pDevMode, fieldsSet, committed,
                   copies, copy_num, applyFail, dresult>>

\* pDevMode = win32print.GetPrinter(hPrinter, 2)["pDevMode"], with
\* DocumentProperties when that is empty; the bare except logs and returns.
\* (A DocumentProperties result that is no device mode makes the first field
\* assignment raise: see the failure branch of A_Orientation.)
A_GetMode ==
    /\ dpc = "getmode"
    /\ calls' = Append(calls, "GetPrinter")
    /\ \/ /\ pDevMode' = devDefault
          /\ dpc' = "orientation"
          /\ UNCHANGED applyFail
       \/ /\ applyFail' = "getmode"
          /\ dpc' = ApplyReturn
          /\ UNCHANGED pDevMode
    /\ UNCHANGED <<notDev, print_settings, devDefault, hPrinter, hJob, fieldsSet, committed,
                   copies, copy_num, printFail, dresult>>

\* One field step of apply_print_settings: when `assigns`, pDevMode.<field> =
\* value, which can raise; the outer except then ends apply_print_settings.
A_SetField(here, next, field, assigns, value) ==
    /\ dpc = here
    /\ \/ /\ pDevMode' = IF assigns THEN [pDevMode EXCEPT ![field] = value] ELSE pDevMode
          /\ fieldsSet' = IF assigns THEN fieldsSet \cup {field} ELSE fieldsSet
          /\ dpc' = next
          /\ UNCHANGED applyFail
       \/ /\ assigns
          /\ applyFail' = here
          /\ dpc' = AfterApplyError
          /\ UNCHANGED <<pDevMode, fieldsSet>>
    /\ UNCHANGED <<notDev, print_settings, devDefault, hPrinter, hJob, committed,
                   copies, copy_num, calls, printFail, dresult>>

A_Orientation ==
    A_SetField("orientation", "duplex", "Orientation", TRUE,
               OrientationCode(print_settings.orientation))

A_Duplex ==
    A_SetField("duplex", "paper", "Duplex", TRUE, DuplexCode(print_settings.duplex))

A_Paper ==
    LET paper_size == Get(print_settings.paperSize, "A4")
        known == paper_size \in DOMAIN paper_sizes
    IN  \/ /\ paper_size # JsonArray
           /\ A_SetField("paper", "quality", "PaperSize", known,
                         IF known THEN paper_sizes[paper_size] ELSE 0)
        \/ /\ paper_size = JsonArray
           /\ dpc = "paper"
           /\ applyFail' = "paper"
           /\ dpc' = AfterApplyError
           /\ UNCHANGED <<notDev, print_settings, devDefault, hPrinter, hJob, pDevMode,
                          fieldsSet, committed, copies, copy_num, calls, printFail, dresult>>

A_Quality ==
    LET quality == Get(print_settings.quality, "normal")
        known == quality \in DOMAIN quality_settings
    IN  A_SetField("quality", "color", "PrintQuality", known,
                   IF known THEN quality_settings[quality] ELSE 0)

A_Color ==
    A_SetField("color", "commit", "Color", TRUE, ColorCode(print_settings.colorMode))

\* win32print.SetPrinter(hPrinter, 2, {'pDevMode': pDevMode}, 0)
A_Commit ==
    /\ dpc = "commit"
    /\ calls' = Append(calls, "SetPrinter")
    /\ \/ /\ committed' = pDevMode
          /\ dpc' = ApplyReturn
          /\ UNCHANGED applyFail
       \/ /\ applyFail' = "commit"
          /\ dpc' = AfterApplyError
          /\ UNCHANGED committed
    /\ UNCHANGED <<notDev, print_settings, devDefault, hPrinter, hJob, pDevMode, fieldsSet,
                   copies, copy_num, printFail, dresult>>

\* hJob = win32print.StartDocPrinter(hPrinter, 1, job_info)
P_StartDoc ==
    /\ dpc = "startdoc"
    /\ calls' = Append(calls, "StartDocPrinter")
    /\ \/ /\ hJob' = "started"
          /\ dpc' = "copies"
          /\ UNCHANGED printFail
       \/ /\ printFail' = "startdoc"
          /\ dpc' = "except"
          /\ UNCHANGED hJob
    /\ UNCHANGED <<notDev, print_settings, devDefault, hPrinter, pDevMode, fieldsSet, committed,
                   copies, copy_num, applyFail, dresult>>

\* copies = 1; with a 'copies' entry, copies = max(1, int(...)), where int()
\* raises on a text that is no number; then the head of the for loop.
P_Copies ==
    /\ dpc = "copies"
    /\ IF Truthy(print_settings) /\ print_settings.copies.kind # Absent
       THEN IF print_settings.copies.kind = "text"
            THEN /\ printFail' = "copies"
                 /\ dpc' = "except"
                 /\ UNCHANGED copies
            ELSE /\ copies' = ClampCopies(print_settings.copies.n)
                 /\ dpc' = IF 0 < copies' THEN "startpage" ELSE "enddoc"
                 /\ UNCHANGED printFail
       ELSE /\ copies' = 1
            /\ dpc' = "startpage"
            /\ UNCHANGED printFail
    /\ UNCHANGED <<notDev, print_settings, devDefault, hPrinter, hJob, pDevMode, fieldsSet,
                   committed, copy_num, calls, applyFail, dresult>>

\* win32print.StartPagePrinter(hPrinter)
P_StartPage ==
    /\ dpc = "startpage"
    /\ calls' = Append(calls, "StartPagePrinter")
    /\ \/ /\ dpc' = "write"
          /\ UNCHANGED printFail
       \/ /\ printFail' = "startpage"
          /\ dpc' = "except"
    /\ UNCHANGED <<notDev, print_settings, devDefault, hPrinter, hJob, pDevMode, fieldsSet,
                   committed, copies, copy_num, applyFail, dresult>>

\* win32print.WritePrinter(hPrinter, data)
P_Write ==
    /\ dpc = "write"
    /\ calls' = Append(calls, "WritePrinter")
    /\ \/ /\ dpc' = "endpage"
          /\ UNCHANGED printFail
       \/ /\ printFail' = "write"
          /\ dpc' = "except"
    /\ UNCHANGED <<notDev, print_settings, devDefault, hPrinter, hJob, pDevMode, fieldsSet,
                   committed, copies, copy_num, applyFail, dresult>>

\* win32print.EndPagePrinter(hPrinter); next round of the for loop
P_EndPage ==
    /\ dpc = "endpage"
    /\ calls' = Append(calls, "EndPagePrinter")
    /\ \/ /\ copy_num' = copy_num + 1
          /\ dpc' = IF copy_num' < copies THEN "startpage" ELSE "enddoc"
          /\ UNCHANGED printFail
       \/ /\ printFail' = "endpage"
          /\ dpc' = "except"
          /\ UNCHANGED copy_num
    /\ UNCHANGED <<notDev, print_settings, devDefault, hPrinter, hJob, pDevMode, fieldsSet,
                   committed, copies, applyFail, dresult>>

\* win32print.EndDocPrinter(hPrinter)
P_EndDoc ==
    /\ dpc = "enddoc"
    /\ calls' = Append(calls, "EndDocPrinter")
    /\ \/ /\ hJob' = "ended"
          /\ dpc' = "close"
          /\ UNCHANGED printFail
       \/ /\ printFail' = "enddoc"
          /\ dpc' = "except"
          /\ UNCHANGED hJob
    /\ UNCHANGED <<notDev, print_settings, devDefault, hPrinter, pDevMode, fieldsSet, committed,
                   copies, copy_num, applyFail, dresult>>

\* win32print.ClosePrinter(hPrinter); log; return True
P_Close ==
    /\ dpc = "close"
    /\ calls' = Append(calls, "ClosePrinter")
    /\ \/ /\ hPrinter' = "closed"
          /\ dresult' = "true"
          /\ dpc' = "returned"
          /\ UNCHANGED printFail
       \/ /\ printFail' = "close"
          /\ dpc' = "except"
          /\ UNCHANGED <<hPrinter, dresult>>
    /\ UNCHANGED <<notDev, print_settings, devDefault, hJob, pDevMode, fieldsSet, committed,
                   copies, copy_num, applyFail>>

\* except Exception: log; return False
P_Except ==
    /\ dpc = "except"
    /\ dresult' = "false"
    /\ dpc' = "returned"
    /\ UNCHANGED <<notDev, print_settings, devDefault, hPrinter, hJob, pDevMode, fieldsSet,
                   committed, copies, copy_num, calls, applyFail, printFail>>

ApplyStep == A_GetMode \/ A_Orientation \/ A_Duplex \/ A_Paper \/ A_Quality \/ A_Color
                 \/ A_Commit

PrintStep == P_Open \/ P_StartDoc \/ P_Copies \/ P_StartPage \/ P_Write \/ P_EndPage
                 \/ P_EndDoc \/ P_Close \/ P_Except

DeviceNext == PrintStep \/ ApplyStep

DeviceSpec == InitDevice /\ [][DeviceNext]_vars

(***************************************************************************)
(* convert_raw_to_pdf step by step, with a failure possible at the         *)
(* temporary file, the PDF library and the file system calls.              *)
(***************************************************************************)

InitRender ==
    /\ InitNet
    /\ printer_name = "Microsoft Print to PDF"
    /\ use_pdf_conversion = TRUE
    /\ portOwner = "free"
    /\ DeviceUnused
    /\ ConfigUnused
    /\ AuxUnused
    /\ buf \in ClassifyInputs
    /\ label = NoLabel
    /\ save_file \in BOOLEAN
    /\ rpc = "tempfile"
    /\ temp_pdf = "none"
    /\ canvas_body = <<>>
    /\ pdf_data = NoBytes
    /\ rresult = NotReturned
    /\ renderFail = "none"

notRender == <<netvars, devvars, cfgvars, buf, auxvars>>

\* an exception that reaches the outer `except Exception` of convert_raw_to_pdf
R_Raise(step) ==
    /\ renderFail' = step
    /\ rpc' = "except"

\* temp_pdf = tempfile.NamedTemporaryFile(delete=False, suffix='.pdf'); close
R_TempFile ==
    /\ rpc = "tempfile"
    /\ \/ /\ temp_pdf' = "exists"
          /\ rpc' = "header"
          /\ UNCHANGED renderFail
       \/ /\ R_Raise("tempfile")
          /\ UNCHANGED temp_pdf
    /\ UNCHANGED <<notRender, label, save_file, canvas_body, pdf_data, rresult>>

\* canvas.Canvas(...), data_format = self.analyze_raw_data(raw_data), the
\* title and the three info lines
R_Header ==
    /\ rpc = "header"
    /\ \/ /\ label' = analyze_raw_data(buf)
          /\ rpc' = "extract"
          /\ UNCHANGED renderFail
       \/ /\ R_Raise("header")
          /\ UNCHANGED label
    /\ UNCHANGED <<notRender, save_file, temp_pdf, canvas_body, pdf_data, rresult>>

\* text_content = self.extract_readable_text(raw_data) and the test on it;
\* the text lines are drawn, or add_hex_dump_to_pdf is called; an exception
\* in either is caught by the inner except.
R_Content ==
    /\ rpc = "extract"
    /\ \/ /\ canvas_body' = (LET text_content == extract_readable_text(buf)
                             IN  IF Len(Strip(text_content)) > 0
                                 THEN text_content
                                 ELSE add_hex_dump_to_pdf(buf))
          /\ rpc' = "save"
          /\ UNCHANGED renderFail
       \/ /\ rpc' = "fallback"
          /\ renderFail' = "content"
          /\ UNCHANGED canvas_body
    /\ UNCHANGED <<notRender, label, save_file, temp_pdf, pdf_data, rresult>>

\* except Exception: log; self.add_hex_dump_to_pdf(c, raw_data, y_position)
R_Fallback ==
    /\ rpc = "fallback"
    /\ \/ /\ canvas_body' = add_hex_dump_to_pdf(buf)
          /\ rpc' = "save"
          /\ UNCHANGED renderFail
       \/ /\ R_Raise("fallback")
          /\ UNCHANGED canvas_body
    /\ UNCHANGED <<notRender, label, save_file, temp_pdf, pdf_data, rresult>>

\* c.save()
R_Save ==
    /\ rpc = "save"
    /\ \/ /\ rpc' = "read"
          /\ UNCHANGED renderFail
       \/ R_Raise("save")
    /\ UNCHANGED <<notRender, label, save_file, temp_pdf, canvas_body, pdf_data, rresult>>

\* with open(temp_pdf_path, 'rb') as f: pdf_data = f.read()
R_Read ==
    /\ rpc = "read"
    /\ \/ /\ pdf_data' = Bytes(B_PCTPDF \o canvas_body)
          /\ rpc' = "cleanup"
          /\ UNCHANGED renderFail
       \/ /\ R_Raise("read")
          /\ UNCHANGED pdf_data
    /\ UNCHANGED <<notRender, label, save_file, temp_pdf, canvas_body, rresult>>

\* Variant of R_Cleanup: os.unlink is called without the try/except around it.
R_CleanupUnguarded ==
    /\ rpc = "cleanup"
    /\ IF save_file
       THEN \/ /\ temp_pdf' = "renamed"
               /\ rpc' = "return"
               /\ UNCHANGED renderFail
            \/ /\ R_Raise("rename")
               /\ UNCHANGED temp_pdf
       ELSE \/ /\ temp_pdf' = "deleted"
               /\ rpc' = "return"
               /\ UNCHANGED renderFail
            \/ /\ R_Raise("unlink")
               /\ UNCHANGED temp_pdf
    /\ UNCHANGED <<notRender, label, save_file, canvas_body, pdf_data, rresult>>

\* if save_file: os.rename(temp_pdf_path, saved_path), which can raise;
\* else: os.unlink(temp_pdf_path) inside try/except: pass
R_Cleanup ==
    /\ rpc = "cleanup"
    /\ IF save_file
       THEN \/ /\ temp_pdf' = "renamed"
               /\ rpc' = "return"
               /\ UNCHANGED renderFail
            \/ /\ R_Raise("rename")
               /\ UNCHANGED temp_pdf
       ELSE /\ temp_pdf' \in {"deleted", "exists"}
            /\ rpc' = "return"
            /\ UNCHANGED renderFail
    /\ UNCHANGED <<notRender, label, save_file, canvas_body, pdf_data, rresult>>

\* return pdf_data
R_Return ==
    /\ rpc = "return"
    /\ rresult' = pdf_data
    /\ rpc' = "returned"
    /\ UNCHANGED <<notRender, label, save_file, temp_pdf, canvas_body, pdf_data, renderFail>>

\* except Exception: log; return None
R_Except ==
    /\ rpc = "except"
    /\ rresult' = NoBytes
    /\ rpc' = "returned"
    /\ UNCHANGED <<notRender, label, save_file, temp_pdf, canvas_body, pdf_data, renderFail>>

RenderNext == R_TempFile \/ R_Header \/ R_Content \/ R_Fallback \/ R_Save \/ R_Read
                  \/ R_Cleanup \/ R_Return \/ R_Except

RenderSpec == InitRender /\ [][RenderNext]_vars

(***************************************************************************)
(* load_config and save_config over the candidate config files.            *)
(*                                                                         *)
(* A file is a record: whether it exists, whether it can be opened for     *)
(* reading, whether it can be opened (or created, with its directory) for  *)
(* writing, whether its text parses to a JSON object, and that object.     *)
(***************************************************************************)

\* the candidates of load_config, in the order of the list
config_paths == <<"cwd", "home", "appdata", "temp">>

\* the bases of the fallback path of load_config, in the order of the list
fallback_bases == <<"home", "appdata", "temp">>

\* os.path.join(tempfile.gettempdir(), 'PrinterOne_config.json')
LastResortPath == "tempfile"

ConfigFiles == {"cwd", "home", "appdata", "temp", LastResortPath}

\* a config file somebody left at a candidate path: it names a printer of
\* its own, lacks the other known keys and has a key the program does not know
FoundConfig(p) == [k \in {"printer_name", "theme"} |->
                      IF k = "theme" THEN "dark" ELSE
                      CASE p = "cwd" -> "Printer-cwd" [] p = "home" -> "Printer-home"
                        [] p = "appdata" -> "Printer-appdata" [] OTHER -> "Printer-temp"]

File(e, r, w, p, c) == [exists |-> e, readable |-> r, writable |-> w, parses |-> p, content |-> c]

\* the states a candidate file can be found in
FoundFiles(p) ==
    {File(FALSE, FALSE, w, FALSE, default_config) : w \in BOOLEAN}
        \cup {File(TRUE, FALSE, w, FALSE, default_config) : w \in BOOLEAN}
        \cup {File(TRUE, TRUE, w, FALSE, default_config) : w \in BOOLEAN}
        \cup {File(TRUE, TRUE, w, TRUE, FoundConfig(p)) : w \in BOOLEAN}

\* `if os.path.exists(config_path)`, open, json.load and the merge all succeed
Loadable(fsys, p) == fsys[p].exists /\ fsys[p].readable /\ fsys[p].parses

\* the for loop of load_config: index of the first candidate that loads, 0 when none does
RECURSIVE FirstLoadable(_, _)
FirstLoadable(fsys, i) ==
    IF i > Len(config_paths) THEN 0
    ELSE IF Loadable(fsys, config_paths[i]) THEN i
    ELSE FirstLoadable(fsys, i + 1)

\* for key, value in default_config.items(): if key not in config: config[key] = value
MergeDefaults(cfg) ==
    [k \in DOMAIN default_config \cup DOMAIN cfg |->
        IF k \in DOMAIN cfg THEN cfg[k] ELSE default_config[k]]

\* os.makedirs of the directory of a fallback path can fail only where the
\* file does not exist and cannot be created
MakedirsCanFail(fsys, p) == ~fsys[p].exists /\ ~fsys[p].writable

\* the paths the fallback loop of load_config can end with
FallbackPaths(fsys) ==
    {fallback_bases[i] : i \in {j \in 1..Len(fallback_bases) :
                                  \A h \in 1..(j - 1) : MakedirsCanFail(fsys, fallback_bases[h])}}
        \cup (IF \A j \in 1..Len(fallback_bases) : MakedirsCanFail(fsys, fallback_bases[j])
              THEN {LastResortPath} ELSE {})

\* config_paths_to_try of save_config
PathsToTry(path) == (IF path # NoPath THEN <<path>> ELSE <<>>) \o config_paths

\* the for loop of save_config: index of the first path written, 0 when none is
RECURSIVE FirstWritable(_, _, _)
FirstWritable(fsys, paths, i) ==
    IF i > Len(paths) THEN 0
    ELSE IF fsys[paths[i]].writable THEN i
    ELSE FirstWritable(fsys, paths, i + 1)

\* `return True` inside the loop, `return False` after it
SaveResult(i) == i > 0

InitConfig ==
    /\ \/ InitNet /\ portOwner = "free"
       \/ InitNetRunning
    /\ FnUnused
    /\ DeviceUnused
    /\ RenderUnused
    /\ AuxUnused
    /\ \E c \in FoundFiles("cwd"), h \in FoundFiles("home"), a \in FoundFiles("appdata"),
          t \in FoundFiles("temp"), w \in BOOLEAN :
          fs = [p \in ConfigFiles |->
                  CASE p = "cwd" -> c [] p = "home" -> h [] p = "appdata" -> a
                    [] p = "temp" -> t
                    [] OTHER -> File(FALSE, FALSE, w, FALSE, default_config)]
    /\ tempdir \in {"usable", "none"}
    \* gettempdir() raises only when no temporary directory and not even the
    \* current directory can take a new file
    /\ tempdir = "none" =>
          /\ ~fs["cwd"].exists => ~fs["cwd"].writable
          /\ \A p \in {"temp", LastResortPath} : ~fs[p].exists /\ ~fs[p].writable
    /\ config = default_config
    /\ config_path = NoPath
    /\ lastOp = Op("none", TRUE, default_config, running)
    /\ prevOp = Op("none", TRUE, default_config, running)
    /\ printer_name = default_config["printer_name"]
    /\ use_pdf_conversion = default_config["use_pdf_conversion"]

notConfig == <<serverVars, listenerVars, controlVars, connVars, histVars, fnvars, devvars,
              pdfvars, auxvars>>

\* __init__ re-raised what load_config raised: there is no server object
Crashed == lastOp.op = "load" /\ ~lastOp.ok

\* self.config = self.load_config(): the whole of load_config.  The list of
\* candidates is built before the try block, so an exception of
\* tempfile.gettempdir() leaves load_config and __init__.
LoadConfig ==
    /\ ~Crashed
    /\ IF tempdir = "none"
       THEN UNCHANGED <<config, config_path>>
       ELSE LET i == FirstLoadable(fs, 1)
            IN  IF i > 0
                THEN /\ config' = MergeDefaults(fs[config_paths[i]].content)
                     /\ config_path' = config_paths[i]
                ELSE /\ config' = default_config
                     /\ config_path' \in FallbackPaths(fs)
    /\ prevOp' = lastOp
    /\ lastOp' = Op("load", tempdir # "none", config', running)
    /\ printer_name' = config'["printer_name"]
    /\ use_pdf_conversion' = config'["use_pdf_conversion"]
    /\ UNCHANGED <<notConfig, fs, tempdir>>

\* save_config(printer_name=X, port=P): the whole of save_config
SaveConfig(X, P) ==
    /\ lastOp.op # "none"
    /\ ~Crashed
    /\ LET paths == PathsToTry(config_path)
           i == FirstWritable(fs, paths, 1)
           updated == [config EXCEPT !["printer_name"] = X, !["port"] = P, !["manual"] = TRUE]
       IN  /\ config' = updated
           /\ IF i > 0
              THEN /\ fs' = [fs EXCEPT ![paths[i]] =
                                File(TRUE, IF @.exists THEN @.readable ELSE TRUE, TRUE, TRUE, updated)]
                   /\ config_path' = paths[i]
              ELSE UNCHANGED <<fs, config_path>>
           /\ prevOp' = lastOp
           /\ lastOp' = Op("save", SaveResult(i), updated, running)
    /\ printer_name' = config'["printer_name"]
    /\ use_pdf_conversion' = config'["use_pdf_conversion"]
    /\ UNCHANGED <<notConfig, tempdir>>

\* the values the operator saves
SavedNames == {"X"}
SavedPorts == {9200}

ConfigNext == LoadConfig \/ \E X \in SavedNames, P \in SavedPorts : SaveConfig(X, P)

ConfigSpec == InitConfig /\ [][ConfigNext]_vars

(***************************************************************************)
(* IpSpec: get_local_ip on one machine.  The machine is what the three     *)
(* methods see: the outcome of the outbound-socket probe, the interface    *)
(* table and the outcome of the hostname resolution.                       *)
(***************************************************************************)
MaxIfaces == 2      \* interfaces in the table

Loopback == <<127, 0, 0, 1>>

\* ip.startswith('127.'), ip.startswith('169.254.'), ip.startswith('192.168.56.')
IsLoopback(ip) == StartsWith(ip, <<127>>)

IsLinkLocal(ip) == StartsWith(ip, <<169, 254>>)

IsVirtualSubnet(ip) == StartsWith(ip, <<192, 168, 56>>)

Addresses == {Loopback, <<169, 254, 10, 5>>, <<192, 168, 56, 1>>, <<192, 168, 1, 10>>}

InterfaceNames == {"Wi-Fi", "Ethernet", "VirtualBox Host-Only Network", "tun0"}

\* any(skip in interface_name.lower() for skip in ['virtualbox', ...])
SkippedName(name) == name \in {"VirtualBox Host-Only Network"}

\* any(pref in interface_name.lower() for pref in ['wi-fi', 'wifi', 'ethernet', 'local area'])
PreferredName(name) == name \in {"Wi-Fi", "Ethernet"}

\* 'wi-fi' in name.lower() or 'wifi' in name.lower()
WifiName(name) == name \in {"Wi-Fi"}

\* one entry of net_if_addrs(), with what net_if_stats().get(name) gives for it:
\* "up", "down" (isup false or no entry), "raise"
InterfaceInputs ==
    [name : InterfaceNames,
     addresses : {<<[family |-> f, address |-> a]>> :
                     f \in {"AF_INET"}, a \in Addresses}
                 \cup {<<[family |-> "AF_INET6", address |-> <<192, 168, 1, 10>>]>>},
     stats : {"up", "down", "raise"}]

TableInputs ==
    {[fails |-> TRUE, list |-> <<>>]}
    \cup {[fails |-> FALSE, list |-> l] : l \in SeqsUpTo(InterfaceInputs, MaxIfaces)}

\* the validation of method 1
ProbeAccepts(ip) == ~IsLoopback(ip) /\ ~IsVirtualSubnet(ip) /\ ~IsLinkLocal(ip)

\* the validation of method 3
HostnameAccepts(ip) == ~IsLoopback(ip) /\ ~IsVirtualSubnet(ip)

\* the (ip, interface_name) pairs method 2 collects from one interface
RECURSIVE FromAddresses(_, _)
FromAddresses(iface, as) ==
    IF as = <<>> THEN <<>>
    ELSE LET a == Head(as)
             keep == /\ a.family = "AF_INET"
                     /\ ~(IsLoopback(a.address) \/ IsLinkLocal(a.address)
                          \/ IsVirtualSubnet(a.address))
                     /\ iface.stats = "up"
         IN  (IF keep THEN <<[ip |-> a.address, name |-> iface.name]>> ELSE <<>>)
             \o FromAddresses(iface, Tail(as))

\* ... and from the whole table, in its order
RECURSIVE Collected(_)
Collected(list) ==
    IF list = <<>> THEN <<>>
    ELSE (IF SkippedName(Head(list).name) THEN <<>>
          ELSE FromAddresses(Head(list), Head(list).addresses))
         \o Collected(Tail(list))

IsPreferred(e) == PreferredName(e.name)

IsOther(e) == ~PreferredName(e.name)

IsWifi(e) == WifiName(e.name)

interfaces_with_gw(list) == SelectSeq(Collected(list), IsPreferred)

interfaces_without_gw(list) == SelectSeq(Collected(list), IsOther)

\* "Return the best interface": the address method 2 returns, NoAddr when it returns none
BestInterface(list) ==
    LET gw == interfaces_with_gw(list)
        other == interfaces_without_gw(list)
    IN  IF gw # <<>>
        THEN IF SelectSeq(gw, IsWifi) # <<>> THEN SelectSeq(gw, IsWifi)[1].ip ELSE gw[1].ip
        ELSE IF other # <<>> THEN other[1].ip
        ELSE NoAddr

InitIp ==
    /\ InitNet
    /\ printer_name = "HP LaserJet"
    /\ use_pdf_conversion = TRUE
    /\ portOwner = "free"
    /\ FnUnused
    /\ DeviceUnused
    /\ RenderUnused
    /\ ConfigUnused
    /\ KillUnused
    /\ MultiUnused
    /\ PageUnused
    /\ probe \in {[outcome |-> "nosocket", addr |-> NoAddr], Raises} \cup {Gives(a) : a \in Addresses}
    /\ interfaces \in TableInputs
    /\ hostaddr \in {Raises} \cup {Gives(a) : a \in Addresses}
    /\ ipc = "method1"
    /\ via = "none"
    /\ local_ip = NoAddr

notIp == <<netvars, fnvars, devvars, pdfvars, cfgvars, killvars, multivars, pagevars>>

Return(m, ip) == via' = m /\ local_ip' = ip /\ ipc' = "returned"

\* Method 1: a UDP socket connected to 8.8.8.8 names the outbound address.
\* socket.socket() is outside the inner try: its error goes to the outer except.
M_Probe ==
    /\ ipc = "method1"
    /\ CASE probe.outcome = "nosocket" -> Return("except", Loopback)
         [] probe.outcome = "ok" /\ ProbeAccepts(probe.addr) -> Return("method1", probe.addr)
         [] OTHER -> ipc' = "method2" /\ UNCHANGED <<via, local_ip>>
    /\ UNCHANGED <<notIp, probe, interfaces, hostaddr>>

\* Method 2: the interface table, filtered and ranked.
M_Interfaces ==
    /\ ipc = "method2"
    /\ IF ~interfaces.fails /\ BestInterface(interfaces.list) # NoAddr
       THEN Return("method2", BestInterface(interfaces.list))
       ELSE ipc' = "method3" /\ UNCHANGED <<via, local_ip>>
    /\ UNCHANGED <<notIp, probe, interfaces, hostaddr>>

\* Method 3: the address the host name resolves to.
M_Hostname ==
    /\ ipc = "method3"
    /\ IF hostaddr.outcome = "ok" /\ HostnameAccepts(hostaddr.addr)
       THEN Return("method3", hostaddr.addr)
       ELSE ipc' = "method4" /\ UNCHANGED <<via, local_ip>>
    /\ UNCHANGED <<notIp, probe, interfaces, hostaddr>>

\* Method 4: return '127.0.0.1'
M_Fallback ==
    /\ ipc = "method4"
    /\ Return("method4", Loopback)
    /\ UNCHANGED <<notIp, probe, interfaces, hostaddr>>

IpNext == M_Probe \/ M_Interfaces \/ M_Hostname \/ M_Fallback

IpSpec == InitIp /\ [][IpNext]_vars

(***************************************************************************)
(* ReclaimSpec: one start_server call from its first statement to its      *)
(* return, with kill_process_on_port run statement by statement against    *)
(* the socket table of the system.  No other thread acts.                  *)
(***************************************************************************)
MaxListeners == 2   \* sockets in the table of the system

ConfiguredPort == 9100   \* self.config.get("port", 9100)
WebPort == 8080          \* start_web_server(port=8080)

Processes == {Self, "other"}

ConnectionInputs ==
    [pid : Processes, port : {ConfiguredPort, WebPort}, status : {"LISTEN", "ESTABLISHED"}]

\* conn.laddr.port == port and conn.status == psutil.CONN_LISTEN
Matches(conn, port) == conn.port = port /\ conn.status = "LISTEN"

\* what a bind to the port meets: a live process that listens on it, or nothing
PortHolder(table, live) ==
    IF \E i \in 1..Len(table) : Matches(table[i], ConfiguredPort) /\ table[i].pid \in live
    THEN "foreign" ELSE "free"

Signal(pid, sig) == [pid |-> pid, sig |-> sig]

InitReclaim ==
    /\ InitNet
    /\ printer_name \in PrinterNames
    /\ use_pdf_conversion = TRUE
    /\ FnUnused
    /\ DeviceUnused
    /\ RenderUnused
    /\ ConfigUnused
    /\ IpUnused
    /\ MultiUnused
    /\ PageUnused
    /\ listeners \in SeqsUpTo(ConnectionInputs, MaxListeners)
    /\ alive = Processes
    /\ portOwner = PortHolder(listeners, alive)
    /\ kidx = 0
    /\ signals = <<>>
    /\ reclaims = 0

notReclaim == <<SERVER_RUNNING, running, server_socket, lsock, configVars, connVars, histVars,
                controlVars, lexc, result, fnvars, devvars, pdfvars, cfgvars, ipvars, multivars,
                pagevars>>

\* kill_process_on_port is entered; psutil.net_connections() gives the table,
\* or raises (AccessDenied, ...), which the outer except logs.
K_Enumerate ==
    /\ lpc = "kill"
    /\ reclaims' = reclaims + 1
    /\ \/ kidx' = 1 /\ lpc' = "kvisit"
       \/ kidx' = kidx /\ lpc' = "create"
    /\ UNCHANGED <<notReclaim, portOwner, listeners, alive, signals>>

\* the end of the table: kill_process_on_port returns
K_Return ==
    /\ lpc = "kvisit"
    /\ kidx > Len(listeners)
    /\ lpc' = "create"
    /\ UNCHANGED <<notReclaim, portOwner, listeners, alive, kidx, signals, reclaims>>

\* a connection that is not a listener on the port: next one
K_Skip ==
    /\ lpc = "kvisit"
    /\ kidx <= Len(listeners)
    /\ ~Matches(listeners[kidx], ConfiguredPort)
    /\ kidx' = kidx + 1
    /\ UNCHANGED <<notReclaim, portOwner, listeners, alive, signals, reclaims, lpc>>

\* psutil.Process(conn.pid) or process.terminate() raises NoSuchProcess or
\* AccessDenied: logged, next connection
K_Denied ==
    /\ lpc = "kvisit"
    /\ kidx <= Len(listeners)
    /\ Matches(listeners[kidx], ConfiguredPort)
    /\ kidx' = kidx + 1
    /\ UNCHANGED <<notReclaim, portOwner, listeners, alive, signals, reclaims, lpc>>

\* process.terminate(); sleep; process.kill() when process.is_running().
\* A signalled process ends, and with it every thread it runs.
K_Terminate ==
    /\ lpc = "kvisit"
    /\ kidx <= Len(listeners)
    /\ Matches(listeners[kidx], ConfiguredPort)
    /\ listeners[kidx].pid \in alive
    /\ \E forced \in BOOLEAN :
          signals' = signals \o <<Signal(listeners[kidx].pid, "terminate")>>
                     \o (IF forced THEN <<Signal(listeners[kidx].pid, "kill")>> ELSE <<>>)
    /\ alive' = alive \ {listeners[kidx].pid}
    /\ portOwner' = PortHolder(listeners, alive')
    /\ kidx' = kidx + 1
    /\ lpc' = IF listeners[kidx].pid = Self THEN "dead" ELSE lpc
    /\ UNCHANGED <<notReclaim, listeners, reclaims>>

kill_process_on_port == K_Enumerate \/ K_Skip \/ K_Denied \/ K_Terminate \/ K_Return

ReclaimNext ==
    \/ Start \/ L_Begin \/ kill_process_on_port
    \/ L_Create \/ L_Config \/ L_Bind \/ L_SetRunning \/ L_Loop
    \/ AcceptTimeout \/ AcceptFails
    \/ St1("L") \/ St2("L") \/ St3("L") \/ St4("L") \/ St5("L")
    \/ L_Return

ReclaimSpec == InitReclaim /\ [][ReclaimNext]_vars

\* The thread that runs start_server is scheduled.
FairReclaimSpec == ReclaimSpec /\ WF_vars(ReclaimNext)

(***************************************************************************)
(* MultiSpec: two threads that run start_server, either on two server      *)
(* objects with different ports or, one after a stop_server, on the same   *)
(* object.  SERVER_RUNNING is the one module global they all share; a      *)
(* stop_server call is one step.  Thread t creates socket t.               *)
(***************************************************************************)
\* The objects share a port exactly when they are the same object.
SamePort(s, u) == obj[s] = obj[u]

InitMulti ==
    /\ InitNet
    /\ printer_name = "HP LaserJet"
    /\ use_pdf_conversion = TRUE
    /\ portOwner = "free"
    /\ FnUnused
    /\ DeviceUnused
    /\ RenderUnused
    /\ ConfigUnused
    /\ IpUnused
    /\ KillUnused
    /\ PageUnused
    /\ obj \in {[t \in Starters |-> t], [t \in Starters |-> 1]}
    /\ instRunning = [o \in Instances |-> FALSE]
    /\ instSocket = [o \in Instances |-> 0]
    /\ sockState = [s \in Starters |-> "unborn"]
    /\ mpc = [t \in Starters |-> "init"]
    /\ mexc = [t \in Starters |-> FALSE]
    /\ acceptErr = [t \in Starters |-> FALSE]
    /\ servedOn = [t \in Starters |-> {}]
    /\ closedBy = [s \in Starters |-> "none"]
    /\ stopped = {}

notMulti == <<running, server_socket, lsock, printer_name, use_pdf_conversion, portOwner,
              lpc, lexc, result, cpc, connVars, histVars,
              fnvars, devvars, pdfvars, cfgvars, ipvars, killvars, pagevars>>

\* The thread is launched.  On one object, the later start follows a
\* stop_server call made after the earlier start.
M_Start(t) ==
    /\ mpc[t] = "init"
    /\ \A u \in Starters : (u < t /\ obj[u] = obj[t]) => (mpc[u] # "init" /\ obj[t] \in stopped)
    /\ mpc' = [mpc EXCEPT ![t] = "begin"]
    /\ UNCHANGED <<notMulti, SERVER_RUNNING, obj, instRunning, instSocket, sockState, mexc,
                   acceptErr, servedOn, closedBy, stopped>>

\* global SERVER_RUNNING; SERVER_RUNNING = True  (a printer is configured)
M_Begin(t) ==
    /\ mpc[t] = "begin"
    /\ SERVER_RUNNING' = TRUE
    /\ mpc' = [mpc EXCEPT ![t] = "create"]
    /\ UNCHANGED <<notMulti, obj, instRunning, instSocket, sockState, mexc, acceptErr,
                   servedOn, closedBy, stopped>>

\* self.server_socket = socket.socket(...)
M_Create(t) ==
    /\ mpc[t] = "create"
    /\ instSocket' = [instSocket EXCEPT ![obj[t]] = t]
    /\ sockState' = [sockState EXCEPT ![t] = "open"]
    /\ mpc' = [mpc EXCEPT ![t] = "config"]
    /\ UNCHANGED <<notMulti, SERVER_RUNNING, obj, instRunning, mexc, acceptErr, servedOn,
                   closedBy, stopped>>

\* self.server_socket.setsockopt(...); settimeout(1.0): outside the try block
M_Config(t) ==
    /\ mpc[t] = "config"
    /\ LET s == instSocket[obj[t]]
       IN  mpc' = [mpc EXCEPT ![t] = IF s = 0 \/ sockState[s] = "closed"
                                     THEN "raised" ELSE "bind"]
    /\ UNCHANGED <<notMulti, SERVER_RUNNING, obj, instRunning, instSocket, sockState, mexc,
                   acceptErr, servedOn, closedBy, stopped>>

\* self.server_socket.bind(...); listen(5).  The bind raises when the field
\* is None, the socket is closed or bound already, or the port is held by
\* another listening socket or by a foreign process.
M_Bind(t) ==
    /\ mpc[t] = "bind"
    /\ LET s == instSocket[obj[t]]
       IN  \E foreign \in BOOLEAN :
              IF \/ s = 0
                 \/ foreign
                 \/ sockState[s] # "open"
                 \/ \E u \in Starters : u # s /\ SamePort(s, u) /\ sockState[u] = "listening"
              THEN /\ mexc' = [mexc EXCEPT ![t] = TRUE]
                   /\ mpc' = [mpc EXCEPT ![t] = "finally"]
                   /\ UNCHANGED sockState
              ELSE /\ sockState' = [sockState EXCEPT ![s] = "listening"]
                   /\ mpc' = [mpc EXCEPT ![t] = "setrun"]
                   /\ UNCHANGED mexc
    /\ UNCHANGED <<notMulti, SERVER_RUNNING, obj, instRunning, instSocket, acceptErr,
                   servedOn, closedBy, stopped>>

\* self.running = True
M_SetRunning(t) ==
    /\ mpc[t] = "setrun"
    /\ instRunning' = [instRunning EXCEPT ![obj[t]] = TRUE]
    /\ mpc' = [mpc EXCEPT ![t] = "loop"]
    /\ UNCHANGED <<notMulti, SERVER_RUNNING, obj, instSocket, sockState, mexc, acceptErr,
                   servedOn, closedBy, stopped>>

\* while SERVER_RUNNING and self.running:
M_Loop(t) ==
    /\ mpc[t] = "loop"
    /\ mpc' = [mpc EXCEPT ![t] = IF SERVER_RUNNING /\ instRunning[obj[t]]
                                  THEN "accept" ELSE "finally"]
    /\ UNCHANGED <<notMulti, SERVER_RUNNING, obj, instRunning, instSocket, sockState, mexc,
                   acceptErr, servedOn, closedBy, stopped>>

\* self.server_socket.accept() on whatever socket the field holds now:
\* a connection (a worker is started), a timeout (continue), or an error (break)
M_Accept(t) ==
    /\ mpc[t] = "accept"
    /\ LET s == instSocket[obj[t]]
       IN  IF s = 0 \/ sockState[s] # "listening"
           THEN /\ mpc' = [mpc EXCEPT ![t] = "finally"]
                /\ UNCHANGED <<servedOn, acceptErr>>
           ELSE \/ /\ servedOn' = [servedOn EXCEPT ![t] = @ \cup {s}]
                   /\ mpc' = [mpc EXCEPT ![t] = "loop"]
                   /\ UNCHANGED acceptErr
                \/ /\ mpc' = [mpc EXCEPT ![t] = "loop"]
                   /\ UNCHANGED <<servedOn, acceptErr>>
                \/ /\ acceptErr' = [acceptErr EXCEPT ![t] = TRUE]
                   /\ mpc' = [mpc EXCEPT ![t] = "finally"]
                   /\ UNCHANGED servedOn
    /\ UNCHANGED <<notMulti, SERVER_RUNNING, obj, instRunning, instSocket, sockState, mexc,
                   closedBy, stopped>>

\* stop_server on object o, called by `who`
StopInstance(o, who) ==
    /\ SERVER_RUNNING' = FALSE
    /\ instRunning' = [instRunning EXCEPT ![o] = FALSE]
    /\ LET s == instSocket[o]
       IN  IF s # 0 /\ sockState[s] # "closed"
           THEN /\ sockState' = [sockState EXCEPT ![s] = "closed"]
                /\ closedBy' = [closedBy EXCEPT ![s] = who]
           ELSE UNCHANGED <<sockState, closedBy>>
    /\ instSocket' = [instSocket EXCEPT ![o] = 0]

\* finally: self.stop_server(); return
M_Finally(t) ==
    /\ mpc[t] = "finally"
    /\ StopInstance(obj[t], ThreadName(t))
    /\ mpc' = [mpc EXCEPT ![t] = "returned"]
    /\ UNCHANGED <<notMulti, obj, mexc, acceptErr, servedOn, stopped>>

\* the controlling thread calls stop_server on an object, once
C_Stop(o) ==
    /\ o \notin stopped
    /\ \E t \in Starters : obj[t] = o /\ mpc[t] # "init"
    /\ StopInstance(o, "ctl")
    /\ stopped' = stopped \cup {o}
    /\ UNCHANGED <<notMulti, obj, mpc, mexc, acceptErr, servedOn>>

StarterStep(t) ==
    \/ M_Start(t) \/ M_Begin(t) \/ M_Create(t) \/ M_Config(t) \/ M_Bind(t)
    \/ M_SetRunning(t) \/ M_Loop(t) \/ M_Accept(t) \/ M_Finally(t)

MultiNext == (\E t \in Starters : StarterStep(t)) \/ (\E o \in Instances : C_Stop(o))

MultiSpec == InitMulti /\ [][MultiNext]_vars

(***************************************************************************)
(* PageSpec: the vertical layout of the content pages, drawString call by  *)
(* drawString call.  The text branch lays out the lines of the extracted   *)
(* text, whose lengths are chosen line by line; the hex dump branch lays   *)
(* out a buffer of nbytes bytes.                                           *)
(***************************************************************************)
MaxBytes == 1300    \* length of the buffer in the hex dump branch
MaxLines == 40      \* lines of the extracted text

ContentTop == 640       \* y_position = 640
PageTop == 750          \* y_position = 750 after showPage()
TextMargin == 80        \* if y_position < 80
TextAdvance == 15       \* y_position -= 15
WrapWidth == 80         \* len(line) > 80, line[i:i+80], hex_data[i:i+80], (i + 1) % 80
HeadingGap == 30        \* y_position -= 30 under "Content:" and "Raw Data (Hex):"
DumpMargin == 50        \* if y_position < 50
DumpAdvance == 12       \* y_position -= 12
SectionGap == 20        \* y_position -= 20 around "ASCII representation:"
SectionMargin == 100    \* if y_position < 100

LineLengths == {0, 80, 81, 200}

CeilDiv(a, b) == (a + b - 1) \div b

\* if y_position < margin: showPage(); y_position = 750
BreakBelow(y, margin) == IF y < margin THEN PageTop ELSE y

InitPage ==
    /\ InitNet
    /\ printer_name = "Microsoft Print to PDF"
    /\ use_pdf_conversion = TRUE
    /\ portOwner = "free"
    /\ FnUnused
    /\ DeviceUnused
    /\ RenderUnused
    /\ ConfigUnused
    /\ IpUnused
    /\ KillUnused
    /\ MultiUnused
    /\ \/ ppc = "text" /\ nbytes = 0 /\ pleft \in 1..MaxLines
       \/ ppc = "hex" /\ nbytes \in 0..MaxBytes /\ pleft = 0
    /\ y_position = ContentTop
    /\ chunks = 0
    /\ lastDraw = Draw("none", 0)

notPage == <<netvars, fnvars, devvars, pdfvars, cfgvars, ipvars, killvars, multivars>>

\* c.drawString(100, y_position, "Content:"); y_position -= 30
T_Heading ==
    /\ ppc = "text"
    /\ lastDraw' = Draw("heading", y_position)
    /\ y_position' = y_position - HeadingGap
    /\ ppc' = "text_line"
    /\ UNCHANGED <<notPage, nbytes, pleft, chunks>>

\* one round of `for line in lines`, up to its first drawString
T_Line ==
    /\ ppc = "text_line"
    /\ pleft > 0
    /\ \E len \in LineLengths :
          LET y == BreakBelow(y_position, TextMargin)
          IN  IF len > WrapWidth
              THEN /\ chunks' = CeilDiv(len, WrapWidth)
                   /\ y_position' = y
                   /\ ppc' = "text_chunk"
                   /\ UNCHANGED <<lastDraw, pleft>>
              ELSE /\ lastDraw' = Draw("line", y)
                   /\ y_position' = y - TextAdvance
                   /\ pleft' = pleft - 1
                   /\ UNCHANGED <<chunks, ppc>>
    /\ UNCHANGED <<notPage, nbytes>>

\* one round of `for i in range(0, len(line), 80)`
T_Chunk ==
    /\ ppc = "text_chunk"
    /\ lastDraw' = Draw("chunk", y_position)
    /\ y_position' = BreakBelow(y_position - TextAdvance, TextMargin)
    /\ chunks' = chunks - 1
    /\ IF chunks' = 0
       THEN pleft' = pleft - 1 /\ ppc' = "text_line"
       ELSE UNCHANGED <<pleft, ppc>>
    /\ UNCHANGED <<notPage, nbytes>>

\* after the last line: y_position -= 20
T_End ==
    /\ ppc = "text_line"
    /\ pleft = 0
    /\ y_position' = y_position - SectionGap
    /\ ppc' = "done"
    /\ UNCHANGED <<notPage, nbytes, pleft, chunks, lastDraw>>

\* drawString(100, y_position, "Raw Data (Hex):"); y_position -= 30;
\* hex_data = raw_data[:2000].hex()
H_Heading ==
    /\ ppc = "hex"
    /\ lastDraw' = Draw("heading", y_position)
    /\ y_position' = y_position - HeadingGap
    /\ pleft' = CeilDiv(2 * Min(nbytes, HexDumpBytes), WrapWidth)
    /\ ppc' = "hex_line"
    /\ UNCHANGED <<notPage, nbytes, chunks>>

\* one round of `for i in range(0, len(hex_data), 80)`
H_Line ==
    /\ ppc = "hex_line"
    /\ pleft > 0
    /\ LET y == BreakBelow(y_position, DumpMargin)
       IN  /\ lastDraw' = Draw("hex", y)
           /\ y_position' = y - DumpAdvance
    /\ pleft' = pleft - 1
    /\ UNCHANGED <<notPage, nbytes, ppc, chunks>>

\* y_position -= 20; page break below 100; "ASCII representation:"; y_position -= 20
H_AsciiHeading ==
    /\ ppc = "hex_line"
    /\ pleft = 0
    /\ LET y == BreakBelow(y_position - SectionGap, SectionMargin)
       IN  /\ lastDraw' = Draw("heading", y)
           /\ y_position' = y - SectionGap
    /\ pleft' = Min(nbytes, AsciiDumpBytes) \div WrapWidth
    /\ ppc' = "ascii_line"
    /\ UNCHANGED <<notPage, nbytes, chunks>>

\* a full line of 80 characters: if (i + 1) % 80 == 0
H_AsciiLine ==
    /\ ppc = "ascii_line"
    /\ pleft > 0
    /\ LET y == BreakBelow(y_position, DumpMargin)
       IN  /\ lastDraw' = Draw("ascii", y)
           /\ y_position' = y - DumpAdvance
    /\ pleft' = pleft - 1
    /\ UNCHANGED <<notPage, nbytes, ppc, chunks>>

\* if ascii_line: canvas_obj.drawString(100, y_position, ascii_line)
H_AsciiRest ==
    /\ ppc = "ascii_line"
    /\ pleft = 0
    /\ IF Min(nbytes, AsciiDumpBytes) % WrapWidth # 0
       THEN lastDraw' = Draw("ascii_rest", y_position)
       ELSE UNCHANGED lastDraw
    /\ ppc' = "done"
    /\ UNCHANGED <<notPage, nbytes, y_position, pleft, chunks>>

PageNext ==
    \/ T_Heading \/ T_Line \/ T_Chunk \/ T_End
    \/ H_Heading \/ H_Line \/ H_AsciiHeading \/ H_AsciiLine \/ H_AsciiRest

PageSpec == InitPage /\ [][PageNext]_vars

(***************************************************************************)
(*                              The claims                                 *)
(***************************************************************************)

\* C1 (as stated): every buffer handed to print_raw by a connection worker is
\* the rendered PDF of the received buffer when the printer name contains
\* "pdf" and use_pdf_conversion is set, and the received buffer otherwise.
C1_PdfTargetGetsRendering ==
    \A c \in Conns : \A i \in 1..Len(jobs[c]) :
        jobs[c][i] = IF ContainsPdf(printer_name) /\ use_pdf_conversion
                     THEN convert_raw_to_pdf(data[c])
                     ELSE data[c]

\* C1 (amended): every buffer handed to print_raw by a connection worker is
\* exactly the received buffer, whatever the printer name and use_pdf_conversion.
C1_DispatchesReceivedBuffer ==
    \A c \in Conns : \A i \in 1..Len(jobs[c]) : jobs[c][i] = data[c]

\* A job was dispatched to a PDF printer with use_pdf_conversion set.
C1_PdfTargetDispatched ==
    \E c \in Conns :
        /\ jobs[c] # <<>>
        /\ ContainsPdf(printer_name)
        /\ use_pdf_conversion

\* C2: once a buffer is classified, a buffer that starts with 0x1B %-12345X
\* has the PCL label, and the ESC/P label is given only to buffers that start
\* with 0x1B and do not continue with %-12345X.
C2_PclBeforeEscP ==
    label # NoLabel =>
        /\ StartsWith(buf, B_PCL) => label.name = "PCL (HP)"
        /\ label.name = "ESC/P (Epson)" => StartsWith(buf, B_ESC) /\ ~StartsWith(buf, B_PCL)

\* C3: at every moment a worker's buffer is the bytes read so far from its own
\* connection, in order, and a dispatched buffer is everything its own peer
\* sent up to its close, and nothing else.
C3_OwnBytesInOrder ==
    \A c \in Conns :
        /\ data[c] = Payload(c, rcvd[c])
        /\ \A i \in 1..Len(jobs[c]) :
              /\ peer[c] = "closed"
              /\ jobs[c][i] = Payload(c, sentLen[c])

\* Two workers are alive at once: the first has handed over its complete
\* job of several bytes, the second is in the middle of reading its own.
C3_TwoJobsConcurrent ==
    /\ MaxConn >= 2
    /\ wpc[1] = "print"
    /\ Len(jobs[1][1]) >= 2
    /\ wpc[2] = "recv"
    /\ rcvd[2] >= 1
    /\ rcvd[2] < sentLen[2]

\* C4: while the accept loop runs, the listener thread always has a step of
\* its own to take, and when it is in accept with a connection waiting, taking
\* that connection and starting its worker is possible, however many workers
\* are reading or printing.
C4_AcceptNeverWaitsForWorkers ==
    /\ Listening => ENABLED ListenerStep
    /\ \A c \in Conns :
          (lpc = "accept" /\ server_socket # None /\ lsock = "listening" /\ FirstPending(c))
              => ENABLED AcceptClient(c)

\* The listener is in accept with a connection waiting while one worker is
\* blocked in print_raw.
C4_AcceptWhileWorkerPrints ==
    \E c, d \in Conns :
        /\ wpc[c] = "print"
        /\ lpc = "accept"
        /\ lsock = "listening"
        /\ FirstPending(d)

\* C5: when the listener thread has left the accept loop it entered after a
\* successful bind, the controlling thread has called stop_server.
LeftLoop == lpc \in {"st1", "st2", "st3", "st4", "st5", "ret", "returned"}

C5_LeavesListeningOnlyOnStop ==
    (binds > 0 /\ ~bindFailed /\ LeftLoop) => stopSeen

\* C6: a stop_server call made while the accept loop runs leads to the
\* listener thread having returned, with running false, the field cleared
\* and the listening socket closed.
Idle == lpc = "returned" /\ ~running /\ server_socket = None /\ lsock = "closed"

C6_StopLeadsToIdle == stopListening ~> Idle

\* The listener is idle after a stop during the accept loop, and no client
\* ever connected.
C6_StoppedWithoutClients ==
    /\ stopListening
    /\ Idle
    /\ \A c \in Conns : peer[c] = "idle"

\* C7: only the worker closes its client socket (it is open as long as the
\* worker reads or prints), recv raises only after a reset by the peer, and a
\* worker that was reading when stop was called and whose peer then closed
\* has read to EOF and handed over exactly what its peer sent.
C7_StopSparesConnections ==
    \A c \in Conns :
        /\ wpc[c] \in {"recv", "print"} => csock[c] = "open"
        /\ readErr[c] => peer[c] = "reset"
        /\ (c \in inFlightAtStop /\ wpc[c] = "done" /\ peer[c] = "closed")
              => /\ rcvd[c] = sentLen[c]
                 /\ sentLen[c] > 0 => jobs[c] = <<Payload(c, sentLen[c])>>

\* A worker that was reading when stop was called, before its peer had sent
\* everything, has finished and handed over its complete job.
C7_InFlightJobDispatched ==
    \E c \in inFlightAtStop :
        /\ wpc[c] = "done"
        /\ Idle
        /\ sentLen[c] = MaxLen
        /\ jobs[c] = <<Payload(c, sentLen[c])>>
        /\ printed[c] = <<TRUE>>

\* C8: once a bind has failed, running is false, the socket does not listen,
\* no connection is made or accepted, the bind is not tried again, and when
\* start_server has returned it has returned False, with the field cleared
\* and the socket closed.
C8_BindFailureBackToIdle ==
    bindFailed =>
        /\ binds = 1
        /\ ~running
        /\ lsock # "listening"
        /\ \A c \in Conns : peer[c] = "idle" /\ wpc[c] = "none"
        /\ lpc = "returned" => result = "false" /\ server_socket = None /\ lsock = "closed"

\* start_server has returned after a bind that failed because reclamation
\* left the foreign owner of the port in place.
C8_BindFailedOnForeignPort ==
    /\ bindFailed
    /\ lpc = "returned"
    /\ portOwner = "foreign"

\* C9: a worker calls print_raw at most once, only after reading EOF on a
\* non-empty buffer; a finished worker has called it once if it read EOF on
\* a non-empty buffer with a printer configured, and never if the buffer was
\* empty or recv raised; a failed call is not repeated.
C9_AtMostOneDispatchAfterEOF ==
    \A c \in Conns :
        /\ Len(jobs[c]) <= 1
        /\ Len(printed[c]) <= Len(jobs[c])
        /\ jobs[c] # <<>> => peer[c] = "closed" /\ rcvd[c] = sentLen[c] /\ data[c] # <<>>
        /\ wpc[c] = "done" =>
              /\ Len(jobs[c]) = IF ~readErr[c] /\ data[c] # <<>> /\ printer_name # "" THEN 1 ELSE 0
              /\ Len(printed[c]) = Len(jobs[c])

\* A worker has finished after its single print_raw call failed.
C9_FailedDispatchNotRetried ==
    \E c \in Conns :
        /\ wpc[c] = "done"
        /\ printed[c] = <<FALSE>>
        /\ Len(jobs[c]) = 1

\* C10: every worker that is reading eventually finishes.
C10_ReceiverAlwaysTerminates ==
    \A c \in Conns : (wpc[c] = "recv") ~> (wpc[c] = "done")

\* C11: on every path through handle_client that returns (dispatch succeeded,
\* dispatch failed with a device error, recv raised, empty buffer, no printer
\* configured) the worker has closed its client socket exactly once when it
\* ends, and never closes it while it is still reading or printing.
C11_ClosedExactlyOnce ==
    \A c \in Conns :
        /\ closes[c] <= 1
        /\ wpc[c] = "done" <=> closes[c] = 1
        /\ wpc[c] = "done" => csock[c] = "closed"

\* C11 witness: one worker ended after a device error, the other after a
\* read error, each with its socket closed.
C11_FailedPathsClosed ==
    \E c, d \in Conns :
        /\ wpc[c] = "done" /\ printed[c] = <<FALSE>> /\ closes[c] = 1
        /\ wpc[d] = "done" /\ readErr[d] /\ closes[d] = 1

\* ---- print_raw and apply_print_settings ----

Max1(n) == IF n < 1 THEN 1 ELSE n

RECURSIVE Repeat(_, _)
Repeat(s, n) == IF n <= 0 THEN <<>> ELSE s \o Repeat(s, n - 1)

ApplyCalls == {"GetPrinter", "SetPrinter"}

IsDispatchCall(x) == x \notin ApplyCalls

IsWrite(x) == x = "WritePrinter"

Writes == Len(SelectSeq(calls, IsWrite))

\* the copies value the settings ask for, 1 when they ask for none
Requested ==
    IF Truthy(print_settings) /\ print_settings.copies.kind = "int"
    THEN print_settings.copies.n ELSE 1

PageBracket == <<"StartPagePrinter", "WritePrinter", "EndPagePrinter">>

\* C12: a successful print_raw issued: open device, the calls of apply (only
\* when settings are given), start document, max(1, copies) brackets of
\* start page / write / end page, end document, close device; the number of
\* writes is max(1, copies), so 0 and negative values write once.
C12_DeviceCallOrder ==
    (dpc = "returned" /\ dresult = "true") =>
        /\ SelectSeq(calls, IsDispatchCall) =
              <<"OpenPrinter", "StartDocPrinter">> \o Repeat(PageBracket, Max1(Requested))
                  \o <<"EndDocPrinter", "ClosePrinter">>
        /\ Writes = Max1(Requested)
        /\ \A i, j \in 1..Len(calls) :
              (calls[i] \in ApplyCalls /\ calls[j] = "StartDocPrinter") => (1 < i /\ i < j)
        /\ Truthy(print_settings) <=> (\E i \in 1..Len(calls) : calls[i] = "GetPrinter")

\* C12 witness: a job with copies = 0 and applied settings was printed.
C12_ZeroCopiesPrinted ==
    /\ dpc = "returned" /\ dresult = "true"
    /\ print_settings.copies = [kind |-> "int", n |-> 0]
    /\ committed # NoMode
    /\ Writes = 1

\* C13: no failure inside apply_print_settings aborts the job: it never sends
\* print_raw to its except block, and when no device call of print_raw itself
\* fails the job is written and print_raw returns True; when the device mode
\* cannot be read no field is set and nothing is committed.
C13_ApplyNeverAborts ==
    /\ (applyFail # "none" /\ printFail = "none") => dpc # "except"
    /\ (applyFail # "none" /\ printFail = "none" /\ dpc = "returned") =>
          (dresult = "true" /\ Writes = Max1(Requested))
    /\ applyFail = "getmode" =>
          (fieldsSet = {} /\ committed = NoMode
             /\ \A i \in 1..Len(calls) : calls[i] # "SetPrinter")

\* C13 witness: reading or committing the device mode failed, and the job
\* was printed all the same.
C13_PrintedAfterApplyFailure ==
    /\ dpc = "returned" /\ dresult = "true"
    /\ applyFail \in {"getmode", "commit"}
    /\ Writes = Max1(Requested)

SettingKeys == {"orientation", "duplex", "paperSize", "quality", "colorMode"}

\* the device-mode field a settings key is translated to
ModeField(k) ==
    CASE k = "orientation" -> "Orientation" [] k = "duplex" -> "Duplex"
      [] k = "paperSize" -> "PaperSize" [] k = "quality" -> "PrintQuality"
      [] k = "colorMode" -> "Color"

\* C14 (as stated): a committed device mode has, for every key absent from
\* the settings, the value the device reported as its default.
C14_AbsentKeepsDeviceDefault ==
    committed # NoMode =>
        \A k \in SettingKeys :
            print_settings[k] = Absent => committed[ModeField(k)] = devDefault[ModeField(k)]

FieldSteps == <<"orientation", "duplex", "paper", "quality", "color">>

\* C15 (as stated): after a failure in one field step the following field
\* steps are still made and the device mode is still committed.
C15_FieldFailureContinues ==
    \A i \in 1..Len(FieldSteps) :
        (dpc = "returned" /\ applyFail = FieldSteps[i]) =>
            \E j \in 1..Len(calls) : calls[j] = "SetPrinter"

\* the values the settings glossary enumerates for a key
Enumerated(k) ==
    CASE k = "orientation" -> {"portrait", "landscape"}
      [] k = "duplex" -> {"simplex", "duplex_long", "duplex_short"}
      [] k = "paperSize" -> DOMAIN paper_sizes
      [] k = "quality" -> DOMAIN quality_settings
      [] k = "colorMode" -> {"color", "monochrome", "grayscale"}

\* what apply_print_settings commits for a key that is absent
CommittedWhenAbsent(k) ==
    CASE k = "orientation" -> OrientationCode(Absent)
      [] k = "duplex" -> DuplexCode(Absent)
      [] k = "paperSize" -> paper_sizes[Get(Absent, "A4")]
      [] k = "quality" -> quality_settings[Get(Absent, "normal")]
      [] k = "colorMode" -> ColorCode(Absent)

\* C16 (as stated): in a job that was printed and whose device calls all
\* succeeded, a value outside a key's enumerated set does not keep the device
\* mode from being committed, and the committed value of that key is the one
\* committed when the key is absent.
C16_UnsupportedValueAsAbsent ==
    (/\ dpc = "returned" /\ dresult = "true" /\ Truthy(print_settings)
     /\ \/ applyFail = "none"
        \/ applyFail = "paper" /\ print_settings.paperSize = JsonArray) =>
        /\ committed # NoMode
        /\ \A k \in SettingKeys :
              (print_settings[k] # Absent /\ print_settings[k] \notin Enumerated(k)) =>
                  committed[ModeField(k)] = CommittedWhenAbsent(k)

FatalRenderSteps == {"tempfile", "header", "fallback", "save", "read", "rename"}

LoadableCandidates == {i \in 1..Len(config_paths) :
                          LET f == fs[config_paths[i]] IN f.exists /\ f.readable /\ f.parses}

\* C18 (as stated): a load_config that follows a save_config(X, P) that
\* reported success returns X and P, and the other fields as they were
\* saved or at their defaults.
C18_SaveLoadRoundTrip ==
    (lastOp.op = "load" /\ prevOp.op = "save" /\ prevOp.ok) =>
        /\ lastOp.ok
        /\ config["printer_name"] = prevOp.config["printer_name"]
        /\ config["port"] = prevOp.config["port"]
        /\ \A k \in {"use_pdf_conversion", "save_pdf_file", "minimize_to_tray"} :
              config[k] \in {prevOp.config[k], default_config[k]}

\* what C19 says of a load_config that returned while a candidate could be loaded
FirstCandidateMerged ==
    LET first == CHOOSE i \in LoadableCandidates : \A j \in LoadableCandidates : i <= j
        file == fs[config_paths[first]].content
    IN  /\ config_path = config_paths[first]
        /\ DOMAIN config = DOMAIN default_config \cup DOMAIN file
        /\ \A k \in DOMAIN file : config[k] = file[k]
        /\ \A k \in DOMAIN default_config \ DOMAIN file : config[k] = default_config[k]

\* C19 (as stated): load_config returns, and when some candidate exists, can
\* be read and parses, the config it returns is the content of the first
\* such candidate in the order current directory, home, app-data, temp, with
\* the missing keys at their defaults and every key of the file kept.
C19_FirstLoadableCandidateWins ==
    lastOp.op = "load" =>
        /\ lastOp.ok
        /\ LoadableCandidates # {} => FirstCandidateMerged

\* C19 without the exception of gettempdir (see C20): every load_config that
\* returns, returns the first loadable candidate merged with the defaults.
ReturnedLoadIsFirstCandidate ==
    (lastOp.op = "load" /\ lastOp.ok /\ LoadableCandidates # {}) => FirstCandidateMerged

\* C20 (as stated): load_config returns, with the defaults when no candidate
\* can be loaded; save_config returns False when no path it tries can be
\* written; neither changes whether the listener is running.
C20_ConfigFailuresNotFatal ==
    /\ lastOp.op = "load" =>
          (lastOp.ok /\ (LoadableCandidates = {} => config = default_config))
    /\ (lastOp.op = "save"
          /\ \A i \in 1..Len(PathsToTry(config_path)) : ~fs[PathsToTry(config_path)[i]].writable)
          => ~lastOp.ok
    /\ lastOp.op # "none" => (lastOp.running <=> running)


\* The buffer matches none of the prefix and substring rules 1 to 6.
NoRuleMatches(d) ==
    /\ Len(d) > 0
    /\ analyze_raw_data(d).name \in {"Text document", "Binary/Unknown format"}

\* The whole buffer is well-formed UTF-8: strict decoding would not raise.
ValidUtf8(d) == ~Utf8Decode(d).dropped

\* C24: a classified non-empty buffer that matches none of rules 1 to 6 has
\* the text label only if the whole buffer is valid UTF-8 and one of its first
\* 200 characters is printable and not whitespace; a buffer that is not valid
\* UTF-8 has the binary/unknown label with its byte length.
C24_TextOnlyIfValidUtf8 ==
    (label # NoLabel /\ NoRuleMatches(buf)) =>
        /\ label.name = "Text document" =>
              /\ ValidUtf8(buf)
              /\ \E i \in 1..Min(TextWindow, Len(Utf8Decode(buf).chars)) :
                    LET c == Utf8Decode(buf).chars[i] IN IsPrintable(c) /\ ~IsSpace(c)
        /\ ~ValidUtf8(buf) => label = Lbl("Binary/Unknown format", Len(buf))

\* C29: when print_raw has returned, the device handle it opened is closed
\* and the document it started is ended, whatever step failed.
C29_HandleClosedOnEveryPath ==
    dpc = "returned" => (hPrinter # "open" /\ hJob # "started")

\* C26: under every interleaving of start_server and stop_server on the
\* same server object, running implies that the listening socket exists and
\* is open.
C26_RunningImpliesOpenSocket ==
    running => (server_socket # None /\ lsock = "listening")

\* The listener has ended: not running, start_server returned, no open socket.
Halted == lpc = "returned" /\ ~running /\ lsock \in {"unborn", "closed"}

\* C27: a stop_server call entered once the start_server thread is launched
\* (even before the thread's first statement) leads to a listener that is not
\* running and whose listening socket is closed.
C27_NoStopRequestLost == (cpc = "st1" /\ lpc # "init") ~> Halted

\* The addresses get_local_ip is to avoid.
ExcludedAddress(ip) == IsLoopback(ip) \/ IsLinkLocal(ip) \/ IsVirtualSubnet(ip)

\* C22: get_local_ip always returns an address; an address returned by
\* method 1, 2 or 3 is not loopback, link-local or of the virtual-adapter
\* subnet; loopback is returned by the final fallback only.
C22_MethodsNeverReturnExcluded ==
    ipc = "returned" =>
        /\ local_ip # NoAddr
        /\ via \in {"method1", "method2", "method3"} => ~ExcludedAddress(local_ip)
        /\ via \in {"method4", "except"} => local_ip = Loopback

\* start_server is past its call of kill_process_on_port
PastReclaim ==
    lpc \in {"create", "config", "bind", "setrun", "loop", "accept",
             "st1", "st2", "st3", "st4", "st5", "ret"}

\* C21: in a start with a configured printer, kill_process_on_port runs once
\* and has returned before the bind is attempted; whatever it met, the bind
\* is attempted; and start_server returns True exactly when the bind succeeded.
C21_ReclaimOnceThenBind ==
    /\ [](PastReclaim => reclaims = 1)
    /\ [](binds > 0 => (reclaims = 1 /\ lpc \notin {"kill", "kvisit"}))
    /\ [](binds <= 1)
    /\ (lpc = "kill") ~> (binds = 1)
    /\ []((lpc = "returned" /\ printer_name # "") =>
            (binds = 1 /\ result = (IF bindFailed THEN "false" ELSE "true")))

\* C30: kill_process_on_port never signals the process that runs it.
C30_NeverSignalsSelf ==
    \A i \in 1..Len(signals) : signals[i].pid # Self

\* the two threads serve two different server objects
TwoInstances == obj[1] # obj[2]

\* the thread has left its accept loop, or is about to
LeftAcceptLoop(t) == mpc[t] \in {"finally", "returned"}

\* C23: with two listener instances, a thread leaves its accept loop only
\* because of its own instance: its bind or accept failed, or stop_server
\* was called on its own object; and an instance that was stopped is not
\* running again.
C23_InstancesIndependent ==
    TwoInstances =>
        \A t \in Starters :
            /\ (LeftAcceptLoop(t) /\ ~mexc[t] /\ ~acceptErr[t]) => obj[t] \in stopped
            /\ (obj[t] \in stopped /\ mpc[t] = "returned") => ~instRunning[obj[t]]

\* C28: start, stop, start on one object: the first thread accepts no
\* connection on the second thread's socket and does not close it.
C28_FirstLoopLeavesSecondSocket ==
    ~TwoInstances => (2 \notin servedOn[1] /\ closedBy[2] # ThreadName(1))

\* C25: no content line of the rendered PDF is drawn below the bottom margin
\* of its branch: wrapped chunks and lines of text not below 80, hex lines,
\* full ASCII lines and the final partial ASCII line not below 50.
C25_NoLineBelowMargin ==
    /\ lastDraw.kind \in {"line", "chunk"} => lastDraw.y >= TextMargin
    /\ lastDraw.kind \in {"hex", "ascii", "ascii_rest"} => lastDraw.y >= DumpMargin

====
